---- MODULE Spec2Model ----
(***************************************************************************)
(* The ETL pipeline DAG engine of backend/app/services:                    *)
(*   validation.py  validate_pipeline and its five checks                  *)
(*   runner.py      topological_sort and execute_pipeline                  *)
(* A pipeline definition is the dict {"nodes": [...], "edges": [...]}.     *)
(* Dicts are functions on a set of string keys, lists are sequences.       *)
(***************************************************************************)
EXTENDS Integers, Sequences, FiniteSets, TLC

VARIABLES
    pipeline_json,    \* the definition handed to validate_pipeline / execute_pipeline
    vresult,          \* outcome of validate_pipeline(pipeline_json), NoResult before the call
    tresult,          \* outcome of topological_sort(nodes, edges), NoResult before the call
    pc,               \* position of execute_pipeline: idle, running, returned, raised
    execution_order,  \* runner.py:730
    pos,              \* index of the for loop of runner.py:741 in execution_order
    results,          \* runner.py:737, node id -> dataset
    output_paths,     \* runner.py:738
    run_log,          \* the RunLog rows of this run, in commit order
    invoked,          \* node ids whose operator was dispatched, in order
    raised,           \* the exception that reached the caller of execute_pipeline
    mode,             \* who calls execute_pipeline: the request ("sync"), the worker, or a direct call
    run,              \* the PipelineRun row of the run: status and result_location
    pipeline_name,    \* the pipeline_name argument of execute_pipeline, None when omitted
    run_id,           \* the run_id argument of execute_pipeline
    call,             \* a single operator or helper called on its own: name and arguments
    outcome,          \* what that call returned or raised, None before it
    db,               \* the tables pipelines, pipeline_runs and run_logs
    task_queue        \* the tasks sent to the worker and not yet taken by it

\* what the caller of execute_pipeline holds
caller == <<mode, run, pipeline_name, run_id>>

\* a call of one function outside a run
unit == <<call, outcome>>

\* what the requests of all users share
tables == <<db, task_queue>>

vars == <<pipeline_json, vresult, tresult, pc, execution_order, pos, results,
          output_paths, run_log, invoked, raised, caller, unit, tables>>

\* ------------------------------------------------------------------------
\* Bounds of the model
\* ------------------------------------------------------------------------
MaxNodes == 3
MaxEdges == 3
MaxLooseNodes == 3
MaxLooseEdges == 2
MaxTypedNodes == 2
MaxTypedEdges == 1
MaxDupNodes == 3
MaxDupEdges == 1
MaxRunEdges == 2
MaxAliasNodes == 2
MaxAliasEdges == 2
MaxDispatchNodes == 2
MaxDispatchEdges == 1
MaxJoinEdges == 2
MaxInputEdges == 3
MaxRows == 3

\* ------------------------------------------------------------------------
\* Python values
\* ------------------------------------------------------------------------
None == "None"

\* vresult and tresult before the call
NoValidation == [exc |-> "NoResult", is_valid |-> FALSE, errors |-> <<>>]
NoOrder == [exc |-> "NoResult", order |-> <<>>]

\* truthiness of a str-or-None value
Truthy(v) == v # None /\ v # ""

\* dict.get(k)
Get(d, k) == IF k \in DOMAIN d THEN d[k] ELSE None

\* a or b
Or2(a, b) == IF Truthy(a) THEN a ELSE b

\* a or b or c
Or3(a, b, c) == IF Truthy(a) THEN a ELSE Or2(b, c)

Range(s) == {s[i] : i \in 1..Len(s)}

\* list.index(x) for an x that is in the list
IndexOf(s, x) == CHOOSE i \in 1..Len(s) : s[i] = x /\ \A j \in 1..(i - 1) : s[j] # x

\* the ids of a node list in dict insertion order: first occurrence of each key
RECURSIVE DictKeys(_)
DictKeys(nodes) ==
    IF nodes = <<>> THEN <<>>
    ELSE LET front == DictKeys(SubSeq(nodes, 1, Len(nodes) - 1))
             id == nodes[Len(nodes)].id
         IN IF id \in Range(front) THEN front ELSE Append(front, id)

NodeIdSet(nodes) == {nodes[i].id : i \in 1..Len(nodes)}

\* one error string; every message of validation.py is one of these kinds
Err(kind, node, idx, detail) == [kind |-> kind, node |-> node, idx |-> idx, detail |-> detail]

\* ------------------------------------------------------------------------
\* edge endpoints as each function reads them
\* ------------------------------------------------------------------------
\* validation.py:64-65, 115-116, 235-236 and runner.py:759: three aliases
EdgeFrom(edge) == Or3(Get(edge, "from"), Get(edge, "from_node"), Get(edge, "source"))
EdgeTo(edge) == Or3(Get(edge, "to"), Get(edge, "to_node"), Get(edge, "target"))

\* runner.py:107-108: topological_sort reads two aliases only
TopoFrom(edge) == Or2(Get(edge, "from"), Get(edge, "from_node"))
TopoTo(edge) == Or2(Get(edge, "to"), Get(edge, "to_node"))

\* ------------------------------------------------------------------------
\* runner.py: topological_sort (Kahn's algorithm)
\* ------------------------------------------------------------------------
\* runner.py:106-110: the loop over the edges; a key that is not a node id
\* (None included) makes adjacency[...] or in_degree[...] raise KeyError
RECURSIVE TopoBuild(_, _, _, _)
TopoBuild(edges, i, adjacency, in_degree) ==
    IF i > Len(edges)
    THEN [exc |-> None, adjacency |-> adjacency, in_degree |-> in_degree]
    ELSE LET from_node == TopoFrom(edges[i])
             to_node == TopoTo(edges[i])
         IN IF from_node \notin DOMAIN adjacency \/ to_node \notin DOMAIN in_degree
            THEN [exc |-> "KeyError", adjacency |-> adjacency, in_degree |-> in_degree]
            ELSE TopoBuild(edges, i + 1,
                           [adjacency EXCEPT ![from_node] = Append(@, to_node)],
                           [in_degree EXCEPT ![to_node] = @ + 1])

\* runner.py:121-124: reduce the in-degree of the neighbours of the popped node
RECURSIVE KahnNeighbors(_, _, _, _)
KahnNeighbors(neighbors, j, in_degree, queue) ==
    IF j > Len(neighbors)
    THEN [in_degree |-> in_degree, queue |-> queue]
    ELSE LET neighbor == neighbors[j]
             degree == in_degree[neighbor] - 1
         IN KahnNeighbors(neighbors, j + 1,
                          [in_degree EXCEPT ![neighbor] = degree],
                          IF degree = 0 THEN Append(queue, neighbor) ELSE queue)

\* runner.py:116-124: the while loop, queue.pop(0) first
RECURSIVE KahnLoop(_, _, _, _)
KahnLoop(adjacency, in_degree, queue, sorted_nodes) ==
    IF queue = <<>>
    THEN sorted_nodes
    ELSE LET node_id == Head(queue)
             r == KahnNeighbors(adjacency[node_id], 1, in_degree, Tail(queue))
         IN KahnLoop(adjacency, r.in_degree, r.queue, Append(sorted_nodes, node_id))

\* runner.py:126-128: the length test that reports a cycle
CycleCheck(sorted_nodes, nodes) ==
    IF Len(sorted_nodes) # Len(nodes)
    THEN [exc |-> "ValueError", order |-> <<>>]
    ELSE [exc |-> None, order |-> sorted_nodes]

\* topological_sort with the queue seeded with every node id instead of the
\* ids of in-degree zero
topological_sort_AllQueued(nodes, edges) ==
    LET ids == DictKeys(nodes)
        built == TopoBuild(edges, 1, [id \in Range(ids) |-> <<>>], [id \in Range(ids) |-> 0])
    IN IF built.exc # None
       THEN [exc |-> built.exc, order |-> <<>>]
       ELSE CycleCheck(KahnLoop(built.adjacency, built.in_degree, ids, <<>>), nodes)

\* runner.py:97-130
topological_sort(nodes, edges) ==
    LET ids == DictKeys(nodes)
        built == TopoBuild(edges, 1, [id \in Range(ids) |-> <<>>], [id \in Range(ids) |-> 0])
    IN IF built.exc # None
       THEN [exc |-> built.exc, order |-> <<>>]
       ELSE LET queue == SelectSeq(ids, LAMBDA id : built.in_degree[id] = 0)
            IN CycleCheck(KahnLoop(built.adjacency, built.in_degree, queue, <<>>), nodes)

\* ------------------------------------------------------------------------
\* validation.py: detect_cycles (depth-first search)
\* ------------------------------------------------------------------------
\* validation.py:63-67: adjacency[from_node] raises KeyError for a from_node
\* that is no node id; a to_node that is no node id is appended as it is
RECURSIVE CycleAdjacency(_, _, _)
CycleAdjacency(edges, i, adjacency) ==
    IF i > Len(edges)
    THEN [exc |-> None, adjacency |-> adjacency]
    ELSE LET from_node == EdgeFrom(edges[i])
             to_node == EdgeTo(edges[i])
         IN IF Truthy(from_node) /\ Truthy(to_node)
            THEN IF from_node \notin DOMAIN adjacency
                 THEN [exc |-> "KeyError", adjacency |-> adjacency]
                 ELSE CycleAdjacency(edges, i + 1,
                                     [adjacency EXCEPT ![from_node] = Append(@, to_node)])
            ELSE CycleAdjacency(edges, i + 1, adjacency)

\* ReportCycle with the whole path reported instead of path[cycle_start:]
ReportCycle_WholePath(st, neighbor) ==
    IF neighbor \in Range(st.path)
    THEN [st EXCEPT !.errors = Append(@, Err("cycle", neighbor, -1,
                                               Append(st.path, neighbor))),
                    !.ret = TRUE]
    ELSE [st EXCEPT !.exc = "ValueError"]

\* validation.py:83-88: the neighbour is visited and on rec_stack;
\* path.index(neighbor) raises ValueError when the neighbour is not in path
ReportCycle(st, neighbor) ==
    IF neighbor \in Range(st.path)
    THEN [st EXCEPT !.errors = Append(@, Err("cycle", neighbor, -1,
                        Append(SubSeq(st.path, IndexOf(st.path, neighbor), Len(st.path)),
                               neighbor))),
                    !.ret = TRUE]
    ELSE [st EXCEPT !.exc = "ValueError"]

\* validation.py:90-92: the node is finished
LeaveNode(st, node_id) ==
    [st EXCEPT !.rec_stack = @ \ {node_id},
               !.path = SubSeq(@, 1, Len(@) - 1),
               !.ret = FALSE]

\* validation.py:73-92: dfs and its loop over the neighbours; visited,
\* rec_stack, errors and the path list are shared by all calls, and a call
\* that returns True leaves rec_stack and path as they are
RECURSIVE dfs(_, _, _), dfs_neighbors(_, _, _, _)
dfs(adjacency, node_id, st) ==
    dfs_neighbors(adjacency, node_id, 1,
                  [st EXCEPT !.visited = @ \cup {node_id},
                             !.rec_stack = @ \cup {node_id},
                             !.path = Append(@, node_id)])

dfs_neighbors(adjacency, node_id, i, st) ==
    LET neighbors == IF node_id \in DOMAIN adjacency THEN adjacency[node_id] ELSE <<>>
    IN IF i > Len(neighbors)
       THEN LeaveNode(st, node_id)
       ELSE LET neighbor == neighbors[i]
            IN IF neighbor \notin st.visited
               THEN LET r == dfs(adjacency, neighbor, st)
                    IN IF r.exc # None \/ r.ret
                       THEN r
                       ELSE dfs_neighbors(adjacency, node_id, i + 1, r)
               ELSE IF neighbor \in st.rec_stack
                    THEN ReportCycle(st, neighbor)
                    ELSE dfs_neighbors(adjacency, node_id, i + 1, st)

\* validation.py:94-96: one DFS root per node not yet visited, a new path each
RECURSIVE CycleRoots(_, _, _, _)
CycleRoots(adjacency, nodes, i, st) ==
    IF i > Len(nodes) \/ st.exc # None
    THEN st
    ELSE IF nodes[i].id \notin st.visited
         THEN CycleRoots(adjacency, nodes, i + 1,
                         dfs(adjacency, nodes[i].id, [st EXCEPT !.path = <<>>]))
         ELSE CycleRoots(adjacency, nodes, i + 1, st)

\* validation.py:55-98
detect_cycles(nodes, edges) ==
    LET built == CycleAdjacency(edges, 1, [id \in NodeIdSet(nodes) |-> <<>>])
    IN IF built.exc # None
       THEN [exc |-> built.exc, errors |-> <<>>]
       ELSE LET st == CycleRoots(built.adjacency, nodes, 1,
                                 [visited |-> {}, rec_stack |-> {}, path |-> <<>>,
                                  errors |-> <<>>, ret |-> FALSE, exc |-> None])
            IN [exc |-> st.exc, errors |-> IF st.exc = None THEN st.errors ELSE <<>>]

\* ------------------------------------------------------------------------
\* validation.py: the other four checks
\* ------------------------------------------------------------------------
\* the concatenation of the sequences of a sequence
RECURSIVE Flatten(_)
Flatten(ss) == IF ss = <<>> THEN <<>> ELSE Head(ss) \o Flatten(Tail(ss))

\* validation.py:111-120
NodesWithOutgoing(edges) ==
    {EdgeFrom(edges[i]) : i \in {j \in 1..Len(edges) : Truthy(EdgeFrom(edges[j]))}}

NodesWithIncoming(edges) ==
    {EdgeTo(edges[i]) : i \in {j \in 1..Len(edges) : Truthy(EdgeTo(edges[j]))}}

\* the loop body with the LOAD rule testing the outgoing direction
OrphanErrors_LoadOutgoing(node, has_incoming, has_outgoing) ==
    IF node.type = "SOURCE"
    THEN IF ~has_outgoing THEN <<Err("source_no_outgoing", node.id, -1, <<>>)>> ELSE <<>>
    ELSE IF node.type = "LOAD"
    THEN IF ~has_outgoing THEN <<Err("load_no_incoming", node.id, -1, <<>>)>> ELSE <<>>
    ELSE IF node.type = "TRANSFORM"
    THEN (IF ~has_incoming THEN <<Err("transform_no_incoming", node.id, -1, <<>>)>> ELSE <<>>)
         \o (IF ~has_outgoing THEN <<Err("transform_no_outgoing", node.id, -1, <<>>)>> ELSE <<>>)
    ELSE IF ~has_incoming /\ ~has_outgoing
         THEN <<Err("no_connections", node.id, -1, <<>>)>>
         ELSE <<>>

\* validation.py:123-143: the body of the loop over the nodes
OrphanErrors(node, has_incoming, has_outgoing) ==
    IF node.type = "SOURCE"
    THEN IF ~has_outgoing THEN <<Err("source_no_outgoing", node.id, -1, <<>>)>> ELSE <<>>
    ELSE IF node.type = "LOAD"
    THEN IF ~has_incoming THEN <<Err("load_no_incoming", node.id, -1, <<>>)>> ELSE <<>>
    ELSE IF node.type = "TRANSFORM"
    THEN (IF ~has_incoming THEN <<Err("transform_no_incoming", node.id, -1, <<>>)>> ELSE <<>>)
         \o (IF ~has_outgoing THEN <<Err("transform_no_outgoing", node.id, -1, <<>>)>> ELSE <<>>)
    ELSE IF ~has_incoming /\ ~has_outgoing
         THEN <<Err("no_connections", node.id, -1, <<>>)>>
         ELSE <<>>

\* validation.py:101-145
detect_orphan_nodes(nodes, edges) ==
    LET nodes_with_incoming == NodesWithIncoming(edges)
        nodes_with_outgoing == NodesWithOutgoing(edges)
    IN Flatten([i \in 1..Len(nodes) |->
           OrphanErrors(nodes[i], nodes[i].id \in nodes_with_incoming,
                        nodes[i].id \in nodes_with_outgoing)])

\* one "requires" message of validate_node_configs
Requires(node, key) == <<Err("config", node.id, -1, <<node.subtype, key>>)>>

\* the message when config.get(key) is falsy
Need(node, key) == IF ~Truthy(Get(node.config, key)) THEN Requires(node, key) ELSE <<>>

\* validation.py:155-221: the body of the loop over the nodes
ConfigErrors(node) ==
    LET subtype == node.subtype
        config == node.config
    IN IF subtype \in {"CSV_SOURCE", "EXCEL_SOURCE", "JSON_SOURCE"}
       THEN Need(node, "file_path")
       ELSE IF subtype = "DB_SOURCE"
       THEN Need(node, "connection_string")
            \o (IF ~Truthy(Get(config, "table_name")) /\ ~Truthy(Get(config, "query"))
                THEN Requires(node, "table_name or query") ELSE <<>>)
       ELSE IF subtype = "FILTER"
       THEN Need(node, "column") \o Need(node, "operator")
            \o (IF "value" \notin DOMAIN config THEN Requires(node, "value") ELSE <<>>)
       ELSE IF subtype = "SELECT"
       THEN Need(node, "columns")
       ELSE IF subtype = "RENAME"
       THEN Need(node, "mapping")
       ELSE IF subtype = "CAST"
       THEN Need(node, "column") \o Need(node, "dtype")
       ELSE IF subtype = "AGGREGATE"
       THEN Need(node, "group_by") \o Need(node, "aggregations")
       ELSE IF subtype = "JOIN"
       THEN Need(node, "join_type")
            \o (IF ~Truthy(Get(config, "left_on")) \/ ~Truthy(Get(config, "right_on"))
                THEN Requires(node, "left_on and right_on") ELSE <<>>)
       ELSE IF subtype \in {"CSV_LOAD", "EXCEL_LOAD", "JSON_LOAD"}
       THEN Need(node, "output_path")
       ELSE IF subtype = "DB_LOAD"
       THEN Need(node, "connection_string") \o Need(node, "table_name")
       ELSE <<>>

\* validation.py:148-223
validate_node_configs(nodes) == Flatten([i \in 1..Len(nodes) |-> ConfigErrors(nodes[i])])

\* validation.py:234-248: the body of the loop over the edges, idx counted from 0
EdgeErrors(edge, idx, node_ids) ==
    LET from_node == EdgeFrom(edge)
        to_node == EdgeTo(edge)
    IN IF ~Truthy(from_node) THEN <<Err("edge_missing_from", None, idx, <<>>)>>
       ELSE IF ~Truthy(to_node) THEN <<Err("edge_missing_to", None, idx, <<>>)>>
       ELSE (IF from_node \notin node_ids
             THEN <<Err("edge_from_not_exist", from_node, idx, <<>>)>> ELSE <<>>)
            \o (IF to_node \notin node_ids
                THEN <<Err("edge_to_not_exist", to_node, idx, <<>>)>> ELSE <<>>)

\* validation.py:226-250
validate_edges(nodes, edges) ==
    Flatten([i \in 1..Len(edges) |-> EdgeErrors(edges[i], i - 1, NodeIdSet(nodes))])

\* validation.py:253-269
validate_pipeline_structure(nodes, edges) ==
    (IF \A i \in 1..Len(nodes) : nodes[i].type # "SOURCE"
     THEN <<Err("no_source", None, -1, <<>>)>> ELSE <<>>)
    \o (IF \A i \in 1..Len(nodes) : nodes[i].type # "LOAD"
        THEN <<Err("no_load", None, -1, <<>>)>> ELSE <<>>)

\* the five checks with a return after the cycle check when it found a cycle
RunChecks_StopAtCycle(nodes, edges) ==
    LET cycle == detect_cycles(nodes, edges)
    IN IF cycle.exc # None
       THEN [exc |-> cycle.exc, is_valid |-> FALSE, errors |-> <<>>]
       ELSE IF cycle.errors # <<>>
       THEN [exc |-> None, is_valid |-> FALSE, errors |-> cycle.errors]
       ELSE LET errors == detect_orphan_nodes(nodes, edges)
                          \o validate_node_configs(nodes)
                          \o validate_edges(nodes, edges)
                          \o validate_pipeline_structure(nodes, edges)
            IN [exc |-> None, is_valid |-> Len(errors) = 0, errors |-> errors]

\* validation.py:32-52: the five checks, each extending errors; an exception
\* of detect_cycles leaves validate_pipeline before the other checks run
RunChecks(nodes, edges) ==
    LET cycle == detect_cycles(nodes, edges)
    IN IF cycle.exc # None
       THEN [exc |-> cycle.exc, is_valid |-> FALSE, errors |-> <<>>]
       ELSE LET errors == cycle.errors
                          \o detect_orphan_nodes(nodes, edges)
                          \o validate_node_configs(nodes)
                          \o validate_edges(nodes, edges)
                          \o validate_pipeline_structure(nodes, edges)
            IN [exc |-> None, is_valid |-> Len(errors) = 0, errors |-> errors]

\* validation.py:17-52
validate_pipeline(definition) ==
    IF definition.nodes = <<>>
    THEN [exc |-> None, is_valid |-> FALSE, errors |-> <<Err("empty", None, -1, <<>>)>>]
    ELSE RunChecks(definition.nodes, definition.edges)

\* ------------------------------------------------------------------------
\* The definitions the operations are applied to
\* ------------------------------------------------------------------------
IdPool == <<"a", "b", "c", "d", "e">>

\* an id that no node of the definition carries
Ghost == "ghost"

FirstIds(n) == {IdPool[i] : i \in 1..n}

\* an edge in the wire shape {"from": f, "to": t}
Edge(f, t) == [from |-> f, to |-> t]

\* node kinds with a complete config, and ones that lack a required key
SourceNode(id) ==
    [id |-> id, type |-> "SOURCE", subtype |-> "CSV_SOURCE", config |-> [file_path |-> "in.csv"]]
FilterNode(id) ==
    [id |-> id, type |-> "TRANSFORM", subtype |-> "FILTER",
     config |-> [column |-> "amt", operator |-> ">", value |-> ""]]
FilterNodeNoValue(id) ==
    [id |-> id, type |-> "TRANSFORM", subtype |-> "FILTER",
     config |-> [column |-> "amt", operator |-> ">"]]
LoadNode(id) ==
    [id |-> id, type |-> "LOAD", subtype |-> "CSV_LOAD",
     config |-> [output_path |-> "out_" \o id \o ".csv"]]
LoadNodeNoPath(id) ==
    [id |-> id, type |-> "LOAD", subtype |-> "CSV_LOAD", config |-> [output_path |-> ""]]
JoinNode(id) ==
    [id |-> id, type |-> "TRANSFORM", subtype |-> "JOIN",
     config |-> [join_type |-> "inner", left_on |-> "id", right_on |-> "id"]]
\* a JOIN node whose stored config already names a right-hand input;
\* join_type is left to its default, inner (runner.py:355)
JoinNodePreset(id) ==
    [id |-> id, type |-> "TRANSFORM", subtype |-> "JOIN",
     config |-> [left_on |-> "id", right_on |-> "id", right_node_id |-> "a"]]
OtherNode(id) ==
    [id |-> id, type |-> "CUSTOM", subtype |-> "CUSTOM", config |-> [note |-> "x"]]

\* the node of a kind
MakeNode(kind, id) ==
    CASE kind = "source" -> SourceNode(id)
      [] kind = "filter" -> FilterNode(id)
      [] kind = "filter_no_value" -> FilterNodeNoValue(id)
      [] kind = "load" -> LoadNode(id)
      [] kind = "load_no_path" -> LoadNodeNoPath(id)
      [] kind = "join" -> JoinNode(id)
      [] kind = "join_preset" -> JoinNodePreset(id)
      [] OTHER -> OtherNode(id)

\* a definition: node i is of kind kinds[i] with id ids[i], edge j runs from
\* ends[j][1] to ends[j][2]
Definition(kinds, ids, ends) ==
    [nodes |-> [i \in 1..Len(kinds) |-> MakeNode(kinds[i], ids[i])],
     edges |-> [j \in 1..Len(ends) |-> Edge(ends[j][1], ends[j][2])]]

\* graphs for the graph algorithms: n nodes with distinct ids in list order,
\* edges in any order between the ids
IsGraphDef(definition) ==
    \E n \in 0..MaxNodes, m \in 0..MaxEdges :
        \E ends \in [1..m -> FirstIds(n) \X FirstIds(n)] :
            definition = Definition([i \in 1..n |-> "filter"], IdPool, ends)

\* the same with edges that may name, at either end, an id that no node carries
IsLooseDef(definition) ==
    \E n \in 0..MaxLooseNodes, m \in 0..MaxLooseEdges :
        \E ends \in [1..m -> (FirstIds(n) \cup {Ghost}) \X (FirstIds(n) \cup {Ghost})] :
            definition = Definition([i \in 1..n |-> "filter"], IdPool, ends)

\* definitions for the checks that look at type and config: distinct ids,
\* every node of any kind
TypedKinds == {"source", "filter", "filter_no_value", "load", "load_no_path", "other"}

IsTypedDef(definition) ==
    \E n \in 0..MaxTypedNodes, m \in 0..MaxTypedEdges :
        \E kinds \in [1..n -> TypedKinds],
           ends \in [1..m -> (FirstIds(n) \cup {Ghost}) \X (FirstIds(n) \cup {Ghost})] :
            definition = Definition(kinds, IdPool, ends)

\* definitions in which at least two nodes share an id: n nodes over n - 1
\* ids, every edge between ids that nodes carry
IsDupDef(definition) ==
    \E n \in 2..MaxDupNodes, m \in 0..MaxDupEdges :
        \E kinds \in [1..n -> {"source", "filter", "load"}], ids \in [1..n -> FirstIds(n - 1)] :
            \E ends \in [1..m -> Range(ids) \X Range(ids)] :
                definition = Definition(kinds, ids, ends)

\* the key pairs an edge may be written with (validation.py:64-65)
EdgeStyles == {"from", "from_node", "source"}

\* the edge from f to t written in a style
AliasEdge(style, f, t) ==
    CASE style = "from" -> [from |-> f, to |-> t]
      [] style = "from_node" -> [from_node |-> f, to_node |-> t]
      [] OTHER -> [source |-> f, target |-> t]

\* graphs with distinct ids whose edges, all between existing nodes, are each
\* written in one of the styles
IsAliasDef(definition) ==
    \E n \in 0..MaxAliasNodes, m \in 0..MaxAliasEdges :
        \E ends \in [1..m -> FirstIds(n) \X FirstIds(n)], styles \in [1..m -> EdgeStyles] :
            definition =
                [nodes |-> [i \in 1..n |-> FilterNode(IdPool[i])],
                 edges |-> [j \in 1..m |-> AliasEdge(styles[j], ends[j][1], ends[j][2])]]

\* definitions handed to execute_pipeline, which does not validate them:
\* up to three nodes of any type with distinct ids, edges in any order, an
\* edge may point to an id that names no node
RunIds == <<"a", "b", "c">>

RunKinds == {"source", "filter", "load", "other"}

IsRunDef(definition) ==
    \E n \in 1..Len(RunIds), m \in 0..MaxRunEdges :
        \E kinds \in [1..n -> RunKinds],
           ends \in [1..m -> Range(SubSeq(RunIds, 1, n))
                                \X (Range(SubSeq(RunIds, 1, n)) \cup {Ghost})] :
            definition = Definition(kinds, RunIds, ends)

\* definitions with JOIN nodes: three nodes of any kind, every edge from a
\* node to a later one of the list
JoinKinds == RunKinds \cup {"join"}

ForwardEnds == {<<"a", "b">>, <<"a", "c">>, <<"b", "c">>}

IsJoinDef(definition) ==
    \E m \in 0..MaxJoinEdges :
        \E kinds \in [1..Len(RunIds) -> JoinKinds], ends \in [1..m -> ForwardEnds] :
            definition = Definition(kinds, RunIds, ends)

\* definitions with one node fed by two sources: the sources a and b, a node
\* c of any kind, and edges into c from either source in any order
InputKinds == {"filter", "join", "join_preset", "load", "other"}

InputEnds == {<<"a", "c">>, <<"b", "c">>}

IsInputDef(definition) ==
    \E m \in 0..MaxInputEdges :
        \E kind \in InputKinds, ends \in [1..m -> InputEnds] :
            definition = Definition(<<"source", "source", kind>>, RunIds, ends)

\* ------------------------------------------------------------------------
\* State machine
\* ------------------------------------------------------------------------
NoResults == [id \in {} |-> 0]

\* orm_models.py:60-75: the columns of PipelineRun the dispatch paths write;
\* orm_models.py:44-91: no row in any table; ids are given out in sequence,
\* the rows of run_logs are kept by the run they belong to
EmptyDb == [pipelines |-> <<>>, runs |-> <<>>, logs |-> <<>>,
            pipeline_ids |-> 0, run_ids |-> 0]

\* no function has been called on its own
NoCall == [name |-> None]
NoOutcome == [exc |-> "NoResult"]

\* NoRun where execute_pipeline is called without one
NoRun == [status |-> None, result_location |-> None]

NoRunYet ==
    /\ vresult = NoValidation
    /\ tresult = NoOrder
    /\ pc = "idle"
    /\ execution_order = <<>>
    /\ pos = 0
    /\ results = NoResults
    /\ output_paths = <<>>
    /\ run_log = <<>>
    /\ invoked = <<>>
    /\ raised = None
    /\ mode = "direct"
    /\ run = NoRun
    /\ pipeline_name = None
    /\ run_id = 1
    /\ db = EmptyDb
    /\ task_queue = <<>>

Idle == NoRunYet /\ call = NoCall /\ outcome = NoOutcome

InitGraph == IsGraphDef(pipeline_json) /\ Idle

\* pipelines.py:188-214: POST /{pipeline_id}/validate
Validate ==
    /\ pc = "idle"
    /\ vresult = NoValidation
    /\ vresult' = validate_pipeline(pipeline_json)
    /\ UNCHANGED <<caller, unit, tables, pipeline_json, tresult, pc, execution_order, pos, results,
                   output_paths, run_log, invoked, raised>>

\* a call of topological_sort on the nodes and edges of the definition
TopoSort ==
    /\ pc = "idle"
    /\ tresult = NoOrder
    /\ tresult' = topological_sort(pipeline_json.nodes, pipeline_json.edges)
    /\ UNCHANGED <<caller, unit, tables, pipeline_json, vresult, pc, execution_order, pos, results,
                   output_paths, run_log, invoked, raised>>

NextPure == Validate \/ TopoSort

SpecGraph == InitGraph /\ [][NextPure]_vars

InitLoose == IsLooseDef(pipeline_json) /\ Idle

SpecLoose == InitLoose /\ [][NextPure]_vars

InitTyped == IsTypedDef(pipeline_json) /\ Idle

SpecValidate == InitTyped /\ [][NextPure]_vars

InitDup == IsDupDef(pipeline_json) /\ Idle

SpecDup == InitDup /\ [][NextPure]_vars

InitAlias == IsAliasDef(pipeline_json) /\ Idle

SpecAlias == InitAlias /\ [][NextPure]_vars

\* ------------------------------------------------------------------------
\* runner.py: execute_pipeline
\* ------------------------------------------------------------------------
\* rows_in / rows_out of a record that carries none
NoRows == -1

\* a RunLog row with the two row counts in each other's column
LogRecord_SwappedRows(node_id, level, rows_in, rows_out) ==
    [node_id |-> node_id, level |-> level, rows_in |-> rows_out, rows_out |-> rows_in]

\* runner.py:693-706 log_node_execution: one RunLog row, added and committed
LogRecord(node_id, level, rows_in, rows_out) ==
    [node_id |-> node_id, level |-> level, rows_in |-> rows_in, rows_out |-> rows_out]

\* runner.py:726: node_map; for a repeated id the last node wins
NodeMap(nodes) ==
    [id \in NodeIdSet(nodes) |->
        nodes[CHOOSE i \in 1..Len(nodes) :
                 nodes[i].id = id /\ \A j \in (i + 1)..Len(nodes) : nodes[j].id # id]]

\* the edges into the node, the last of the edge list first
IncomingEdges_LastFirst(edges, node_id) ==
    LET into == SelectSeq(edges, LAMBDA e : EdgeTo(e) = node_id)
    IN [i \in 1..Len(into) |-> into[Len(into) + 1 - i]]

\* runner.py:752-753, 776-777: the edges into the node, in edge-list order
IncomingEdges(edges, node_id) == SelectSeq(edges, LAMBDA e : EdgeTo(e) = node_id)

\* what a source can deliver: the table behind file_path
SourceData == {[rows |-> r, columns |-> c] : r \in 0..MaxRows, c \in {{"amt"}, {"id"}}}

\* runner.py:21-94 validate_transform_schema for the kinds of the model:
\* TRUE when the check raises ValueError
SchemaCheckFails(node, df) ==
    /\ node.subtype \in {"FILTER", "CAST"}
    /\ Truthy(Get(node.config, "column"))
    /\ Get(node.config, "column") \notin df.columns

\* runner.py:398-404: the columns of df.merge(right_df, ...): a column of both
\* sides that is not the common key is kept once per side, with a suffix
JoinColumns(left, right, left_on, right_on) ==
    LET both == (left \cap right) \ (IF left_on = right_on THEN {left_on} ELSE {})
    IN ((left \cup right) \ both)
           \cup {c \o "_left" : c \in both} \cup {c \o "_right" : c \in both}

\* runner.py:353-407: the JOIN operator; an empty set where it raises
JoinOutputs(node, input_df) ==
    LET left_on == Get(node.config, "left_on")
        right_on == Get(node.config, "right_on")
        right_node_id == Get(node.config, "right_node_id")
    IN IF \/ ~Truthy(left_on) \/ ~Truthy(right_on) \/ ~Truthy(right_node_id)
          \/ right_node_id \notin DOMAIN results
       THEN {}
       ELSE LET right_df == results[right_node_id]
            IN IF left_on \notin input_df.columns \/ right_on \notin right_df.columns
               THEN {}
               ELSE {[rows |-> r,
                      columns |-> JoinColumns(input_df.columns, right_df.columns,
                                              left_on, right_on)] :
                         r \in 0..(input_df.rows * right_df.rows)}

\* runner.py:240-593: the datasets the operator can return for this input;
\* the operator can also raise, and always does for a subtype it does not know
TransformOutputs(node, input_df) ==
    IF node.subtype = "FILTER"
    THEN {[rows |-> r, columns |-> input_df.columns] : r \in 0..input_df.rows}
    ELSE IF node.subtype = "JOIN"
    THEN JoinOutputs(node, input_df)
    ELSE {}

\* runner.py:731-734: the ordering step raised ValueError
OrderingFailure ==
    /\ run_log' = Append(run_log, LogRecord(None, "ERROR", NoRows, NoRows))
    /\ pc' = "raised"
    /\ raised' = "ValueError"
    /\ UNCHANGED <<caller, unit, tables, pipeline_json, vresult, tresult, execution_order, pos, results,
                   output_paths, invoked>>

\* runner.py:729-734: any other exception of topological_sort passes the
\* except ValueError clause
OrderingCrash(exc) ==
    /\ pc' = "raised"
    /\ raised' = exc
    /\ UNCHANGED <<caller, unit, tables, pipeline_json, vresult, tresult, execution_order, pos, results,
                   output_paths, run_log, invoked>>

\* runner.py:722-738: up to the start of the loop
ExecBegin ==
    /\ pc = "idle"
    /\ LET order == topological_sort(pipeline_json.nodes, pipeline_json.edges)
       IN IF order.exc = "ValueError" THEN OrderingFailure
          ELSE IF order.exc # None THEN OrderingCrash(order.exc)
          ELSE /\ execution_order' = order.order
               /\ pos' = 1
               /\ pc' = "running"
               /\ UNCHANGED <<caller, unit, tables, pipeline_json, vresult, tresult, results, output_paths,
                              run_log, invoked, raised>>

\* an except clause that logs the failure and goes on with the next node
NodeFailure_SkipNode(node_id, inner, called, exc) ==
    /\ run_log' = run_log \o inner \o <<LogRecord(node_id, "ERROR", NoRows, NoRows)>>
    /\ invoked' = IF called THEN Append(invoked, node_id) ELSE invoked
    /\ pos' = pos + 1
    /\ UNCHANGED <<caller, unit, tables, vresult, tresult, execution_order, pc, raised, results, output_paths>>

\* runner.py:791-796: the except clause of the loop body; inner are the
\* records the operator wrote before it raised, called tells whether the
\* operator was dispatched
NodeFailure(node_id, inner, called, exc) ==
    /\ run_log' = run_log \o inner \o <<LogRecord(node_id, "ERROR", NoRows, NoRows)>>
    /\ invoked' = IF called THEN Append(invoked, node_id) ELSE invoked
    /\ pc' = "raised"
    /\ raised' = exc
    /\ UNCHANGED <<caller, unit, tables, vresult, tresult, execution_order, pos, results, output_paths>>

\* the loop goes on to the next node of execution_order
NodeDone(node_id, record) ==
    /\ run_log' = Append(run_log, record)
    /\ invoked' = Append(invoked, node_id)
    /\ pos' = pos + 1
    /\ UNCHANGED <<caller, unit, tables, vresult, tresult, execution_order, pc, raised>>

AtNode(type) ==
    /\ pc = "running"
    /\ pos <= Len(execution_order)
    /\ NodeMap(pipeline_json.nodes)[execution_order[pos]].type = type

CurrentNode == NodeMap(pipeline_json.nodes)[execution_order[pos]]

\* an operator that works in place: the frame it returns is also the frame
\* stored for every node that feeds node_id
Store_InPlace(node_id, df) ==
    [id \in DOMAIN results \cup {node_id} |->
        IF id = node_id \/ \E i \in 1..Len(pipeline_json.edges) :
                               /\ EdgeFrom(pipeline_json.edges[i]) = id
                               /\ EdgeTo(pipeline_json.edges[i]) = node_id
        THEN df ELSE results[id]]

\* runner.py:748, 772: results[node_id] = df
Store(node_id, df) ==
    [id \in DOMAIN results \cup {node_id} |-> IF id = node_id THEN df ELSE results[id]]

\* runner.py:746-748 with execute_source_node (133-213)
ExecSourceNode ==
    /\ AtNode("SOURCE")
    /\ UNCHANGED pipeline_json
    /\ LET node == CurrentNode
       IN \/ /\ node.subtype = "CSV_SOURCE"
             /\ \E df \in SourceData :
                   /\ NodeDone(node.id, LogRecord(node.id, "INFO", NoRows, df.rows))
                   /\ results' = Store(node.id, df)
                   /\ UNCHANGED output_paths
          \/ NodeFailure(node.id, <<>>, TRUE, "OSError")

\* the right input replaces the config of the JOIN node
WithRightNode_FreshConfig(definition, node_id, incoming_edges) ==
    LET node == NodeMap(definition.nodes)[node_id]
        at == CHOOSE i \in 1..Len(definition.nodes) : definition.nodes[i] = node
    IN IF node.subtype = "JOIN" /\ Len(incoming_edges) >= 2
       THEN [definition EXCEPT
                !.nodes[at].config = [right_node_id |-> EdgeFrom(incoming_edges[2])]]
       ELSE definition

\* runner.py:762-768: the right input of a JOIN node is written into its config
WithRightNode(definition, node_id, incoming_edges) ==
    LET node == NodeMap(definition.nodes)[node_id]
        at == CHOOSE i \in 1..Len(definition.nodes) : definition.nodes[i] = node
        right_node == EdgeFrom(incoming_edges[2])
        config == [k \in DOMAIN node.config \cup {"right_node_id"} |->
                      IF k = "right_node_id" THEN right_node ELSE node.config[k]]
    IN IF node.subtype = "JOIN" /\ Len(incoming_edges) >= 2
       THEN [definition EXCEPT !.nodes[at].config = config]
       ELSE definition

\* runner.py:216-600 execute_transform_node: the schema check is outside the
\* try block, the operator inside it
RunTransform(node, input_df) ==
    IF SchemaCheckFails(node, input_df)
    THEN NodeFailure(node.id, <<>>, TRUE, "ValueError")
    ELSE \/ \E df \in TransformOutputs(node, input_df) :
               /\ NodeDone(node.id, LogRecord(node.id, "INFO", input_df.rows, df.rows))
               /\ results' = Store(node.id, df)
               /\ UNCHANGED output_paths
         \/ /\ NodeFailure(node.id, <<LogRecord(node.id, "ERROR", input_df.rows, NoRows)>>,
                           TRUE, "ValueError")

\* runner.py:750-772
ExecTransformNode ==
    /\ AtNode("TRANSFORM")
    /\ LET node == CurrentNode
           incoming_edges == IncomingEdges(pipeline_json.edges, node.id)
       IN IF incoming_edges = <<>>
          THEN NodeFailure(node.id, <<>>, FALSE, "ValueError") /\ UNCHANGED pipeline_json
          ELSE IF EdgeFrom(incoming_edges[1]) \notin DOMAIN results
          THEN NodeFailure(node.id, <<>>, FALSE, "KeyError") /\ UNCHANGED pipeline_json
          ELSE /\ pipeline_json' = WithRightNode(pipeline_json, node.id, incoming_edges)
               /\ RunTransform(NodeMap(pipeline_json'.nodes)[node.id],
                               results[EdgeFrom(incoming_edges[1])])

\* config.py:51
OutputDir == "./outputs"

\* runner.py:610: the default file name, from the pipeline name or the run id
DefaultBasename ==
    IF Truthy(pipeline_name) THEN pipeline_name ELSE "output_" \o ToString(run_id)

\* runner.py:615-616: the path a CSV_LOAD node asks for
OutputPath(node) == Or2(Get(node.config, "output_path"), DefaultBasename \o ".csv")

\* one character of a str
CharAt(str, i) == SubSeq(str, i, i)

\* posixpath.basename: what follows the last slash
basename(path) ==
    LET slashes == {i \in 1..Len(path) : CharAt(path, i) = "/"}
        last == IF slashes = {} THEN 0
                ELSE CHOOSE i \in slashes : \A j \in slashes : j <= i
    IN SubSeq(path, last + 1, Len(path))

\* posixpath.join of two parts
join(a, b) ==
    IF Len(b) > 0 /\ CharAt(b, 1) = "/" THEN b
    ELSE IF Len(a) = 0 \/ CharAt(a, Len(a)) = "/" THEN a \o b
    ELSE a \o "/" \o b

\* str.isalnum() of one character, for the characters of the model
AlnumChars == {"a", "b", "c", "e", "l", "o", "s", "t", "u", "v", "p", "0", "1", "2", "7"}

\* file_utils.py:12-28 sanitize_filename
RECURSIVE SafeChars(_)
SafeChars(filename) ==
    IF Len(filename) = 0 THEN filename
    ELSE LET char == CharAt(filename, 1)
         IN (IF char \in AlnumChars \/ char \in {"-", "_", "."} THEN char ELSE "_")
                \o SafeChars(SubSeq(filename, 2, Len(filename)))

sanitize_filename(filename) == SafeChars(basename(filename))

\* file_utils.py:192-194, 213-215, 234-236: the path the file is written to
write_csv(output_path) == join(OutputDir, sanitize_filename(basename(output_path)))

\* file_utils.py:199-200: to_csv can write the file; a path that names a
\* directory cannot be opened for writing
CanWrite(output_path) == sanitize_filename(basename(output_path)) \notin {"", ".", ".."}

\* file_utils.py:186-252 write_csv, write_excel, write_json: the full path
\* on success, OSError from makedirs, HTTPException for a failed write
WriteOutcomes(output_path) ==
    {[exc |-> "OSError"], [exc |-> "HTTPException"]}
        \cup {[exc |-> None, value |-> write_csv(output_path)] :
                  ok \in {w \in {TRUE} : CanWrite(output_path)}}

\* runner.py:774-786 with execute_load_node (603-690)
ExecLoadNode ==
    /\ AtNode("LOAD")
    /\ UNCHANGED pipeline_json
    /\ LET node == CurrentNode
           incoming_edges == IncomingEdges(pipeline_json.edges, node.id)
       IN IF incoming_edges = <<>>
          THEN NodeFailure(node.id, <<>>, FALSE, "ValueError")
          ELSE IF EdgeFrom(incoming_edges[1]) \notin DOMAIN results
          THEN NodeFailure(node.id, <<>>, FALSE, "KeyError")
          ELSE LET input_df == results[EdgeFrom(incoming_edges[1])]
               IN /\ node.subtype = "CSV_LOAD"
                  /\ \E written \in WriteOutcomes(OutputPath(node)) :
                         \/ /\ written.exc = None
                            /\ NodeDone(node.id,
                                        LogRecord(node.id, "INFO", input_df.rows, NoRows))
                            /\ output_paths' = Append(output_paths, written.value)
                            /\ UNCHANGED results
                         \/ /\ written.exc # None
                            /\ NodeFailure(node.id, <<>>, TRUE, written.exc)

\* runner.py:788-789: a node type that is none of the three
ExecUnknownNode ==
    /\ pc = "running"
    /\ pos <= Len(execution_order)
    /\ CurrentNode.type \notin {"SOURCE", "TRANSFORM", "LOAD"}
    /\ UNCHANGED pipeline_json
    /\ NodeFailure(CurrentNode.id, <<>>, FALSE, "ValueError")

\* runner.py:798-799: the loop is over
ExecReturn ==
    /\ pc = "running"
    /\ pos > Len(execution_order)
    /\ pc' = "returned"
    /\ UNCHANGED <<caller, unit, tables, pipeline_json, vresult, tresult, execution_order, pos, results,
                   output_paths, run_log, invoked, raised>>

\* a return of the first output path instead of the last
ReturnValue_FirstLoad == IF output_paths # <<>> THEN output_paths[1] ELSE None

\* runner.py:799: the value execute_pipeline returns
ReturnValue == IF output_paths # <<>> THEN output_paths[Len(output_paths)] ELSE None

InitRun == IsRunDef(pipeline_json) /\ Idle

Next ==
    \/ ExecBegin
    \/ ExecSourceNode
    \/ ExecTransformNode
    \/ ExecLoadNode
    \/ ExecUnknownNode
    \/ ExecReturn

Spec == InitRun /\ [][Next]_vars

\* pipelines.py:188-214: a validation request; it may come at any time,
\* before, during or after a run of the same definition, and again
Revalidate ==
    /\ vresult' = validate_pipeline(pipeline_json)
    /\ UNCHANGED <<caller, unit, tables, pipeline_json, tresult, pc, execution_order, pos, results,
                   output_paths, run_log, invoked, raised>>

InitJoin == IsJoinDef(pipeline_json) /\ Idle

NextJoin ==
    \/ Revalidate
    \/ ExecBegin
    \/ ExecSourceNode
    \/ ExecTransformNode
    \/ ExecLoadNode
    \/ ExecUnknownNode
    \/ ExecReturn

SpecJoin == InitJoin /\ [][NextJoin]_vars

InitInputs == IsInputDef(pipeline_json) /\ Idle

SpecInputs == InitInputs /\ [][Next]_vars

\* ------------------------------------------------------------------------
\* runner.py: execute_transform_node on a table with rows (AGGREGATE)

MaxAggRows == 3
MaxAggs == 1

\* a DataFrame: column names and dtypes in column order, rows as tuples
Table(columns, dtypes, rows) == [columns |-> columns, dtypes |-> dtypes, rows |-> rows]

\* JSON values that the code tells apart by type
JsonStr(v) == [str |-> v]
JsonList(v) == [list |-> v]
JsonDict(v) == [dict |-> v]
IsStr(v) == DOMAIN v = {"str"}
IsList(v) == DOMAIN v = {"list"}
IsDict(v) == DOMAIN v = {"dict"}

\* bool(v) of such a value
NotEmpty(v) ==
    IF IsStr(v) THEN v.str # ""
    ELSE IF IsList(v) THEN v.list # <<>>
    ELSE DOMAIN v.dict # {}

\* runner.py:64-83 validate_transform_schema, AGGREGATE branch: the name of
\* the exception it raises, None when it returns
validate_transform_schema(node, df) ==
    LET config == node.config
        given == IF "group_by" \in DOMAIN config THEN config.group_by ELSE JsonList(<<>>)
        group_by == IF IsStr(given) THEN <<given.str>>
                    ELSE IF IsList(given) THEN given.list
                    ELSE <<>>
        missing == SelectSeq(group_by, LAMBDA col : col \notin Range(df.columns))
        aggregations == IF "aggregations" \in DOMAIN config
                        THEN config.aggregations ELSE JsonDict(<<>>)
    IN IF node.subtype # "AGGREGATE" THEN None
       ELSE IF missing # <<>> THEN "ValueError"
       ELSE IF ~IsDict(aggregations) THEN "AttributeError"
       ELSE IF \E col \in DOMAIN aggregations.dict : col \notin Range(df.columns)
       THEN "ValueError"
       ELSE None

\* sort order of the group keys: numbers by value, strings by letter
Letters == <<"a", "b", "c">>

ValueLess(dtype, u, v) ==
    IF dtype = "int64" THEN u < v ELSE IndexOf(Letters, u) < IndexOf(Letters, v)

KeyLess(dtypes, k1, k2) ==
    \E j \in 1..Len(k1) :
        /\ ValueLess(dtypes[j], k1[j], k2[j])
        /\ \A i \in 1..(j - 1) : k1[i] = k2[i]

\* Series.agg(func) on the values of one group
RECURSIVE SeqSum(_)
SeqSum(vs) == IF vs = <<>> THEN 0 ELSE Head(vs) + SeqSum(Tail(vs))

KnownAggs == {"sum", "max", "min", "count"}

ApplyAgg(func, vs) ==
    IF func = "sum" THEN SeqSum(vs)
    ELSE IF func = "count" THEN Len(vs)
    ELSE IF func = "max" THEN CHOOSE v \in Range(vs) : \A w \in Range(vs) : w <= v
    ELSE CHOOSE v \in Range(vs) : \A w \in Range(vs) : v <= w

\* '_'.join(col).strip('_') of a column name that is a str: the characters
\* of the name joined by underscores
RECURSIVE JoinChars(_)
JoinChars(name) ==
    IF Len(name) <= 1 THEN name
    ELSE SubSeq(name, 1, 1) \o "_" \o JoinChars(SubSeq(name, 2, Len(name)))

RECURSIVE Strip(_)
Strip(name) ==
    IF Len(name) = 0 THEN name
    ELSE IF SubSeq(name, 1, 1) = "_" THEN Strip(SubSeq(name, 2, Len(name)))
    ELSE IF SubSeq(name, Len(name), Len(name)) = "_"
    THEN Strip(SubSeq(name, 1, Len(name) - 1))
    ELSE name

\* runner.py:321: the name of the output column of one aggregation
OutputName(agg) ==
    LET as == Get(agg, "as")
        output_column == Get(agg, "output_column")
    IN IF Truthy(as) THEN as
       ELSE IF Truthy(output_column) THEN output_column
       ELSE agg.column \o "_" \o agg.agg

\* runner.py:334-349: groupby(group_by).agg(agg_dict).reset_index() and the
\* renaming of its columns, for a list of aggregations that passed the loop
GroupByAgg(df, by, aggs) ==
    LET at(col) == IndexOf(df.columns, col)
        key(row) == [j \in 1..Len(by) |-> row[at(by[j])]]
        key_dtypes == [j \in 1..Len(by) |-> df.dtypes[at(by[j])]]
        keys == {key(df.rows[i]) : i \in 1..Len(df.rows)}
        sorted == CHOOSE order \in [1..Cardinality(keys) -> keys] :
                      \A i, j \in 1..Cardinality(keys) :
                          i < j => KeyLess(key_dtypes, order[i], order[j])
        \* agg_dict: the functions of one column, columns by first occurrence
        first == SelectSeq([i \in 1..Len(aggs) |-> i],
                           LAMBDA i : \A j \in 1..(i - 1) : aggs[j].column # aggs[i].column)
        pairs == Flatten([n \in 1..Len(first) |->
                     LET col == aggs[first[n]].column
                         mine == SelectSeq(aggs, LAMBDA agg : agg.column = col)
                     IN [m \in 1..Len(mine) |-> <<col, mine[m].agg>>]])
        \* rename_map: the last aggregation with this column and function
        rename(pair) ==
            OutputName(aggs[CHOOSE i \in 1..Len(aggs) :
                /\ <<aggs[i].column, aggs[i].agg>> = pair
                /\ \A j \in (i + 1)..Len(aggs) : <<aggs[j].column, aggs[j].agg>> # pair])
        new_cols == by \o [n \in 1..Len(pairs) |-> rename(pairs[n])]
        group(k) == SelectSeq(df.rows, LAMBDA row : key(row) = k)
        cell(k, pair) ==
            LET rows == group(k)
            IN ApplyAgg(pair[2], [i \in 1..Len(rows) |-> rows[i][at(pair[1])]])
    IN IF \E j \in 1..Len(by) : by[j] \notin Range(df.columns)
       THEN [exc |-> "KeyError"]
       ELSE IF \E n, m \in 1..Len(pairs) : n # m /\ pairs[n] = pairs[m]
       THEN [exc |-> "SpecificationError"]
       ELSE IF \E n \in 1..Len(pairs) : pairs[n][2] \notin KnownAggs
       THEN [exc |-> "AttributeError"]
       ELSE [exc |-> None,
             df |-> Table([n \in 1..Len(new_cols) |-> Strip(JoinChars(new_cols[n]))],
                          key_dtypes \o [n \in 1..Len(pairs) |-> "int64"],
                          [g \in 1..Cardinality(keys) |->
                              sorted[g] \o [n \in 1..Len(pairs) |-> cell(sorted[g], pairs[n])]])]

\* runner.py:304-351: the AGGREGATE operator
AggregateOperator(config, df) ==
    LET group_by == IF "group_by" \in DOMAIN config THEN config.group_by ELSE JsonList(<<>>)
        aggregations == IF "aggregations" \in DOMAIN config
                        THEN config.aggregations ELSE JsonList(<<>>)
    IN IF ~NotEmpty(group_by) THEN [exc |-> "ValueError"]
       ELSE IF ~NotEmpty(aggregations) THEN [exc |-> "ValueError"]
       \* iterating a dict gives its keys, and agg['column'] of a str raises
       ELSE IF ~IsList(aggregations) THEN [exc |-> "TypeError"]
       ELSE LET aggs == aggregations.list
                fails(i) == \/ "column" \notin DOMAIN aggs[i]
                            \/ "agg" \notin DOMAIN aggs[i]
                            \/ aggs[i].column \notin Range(df.columns)
                failing == {i \in 1..Len(aggs) : fails(i)}
            IN IF failing # {}
               THEN LET i == CHOOSE k \in failing : \A m \in failing : k <= m
                    IN IF "column" \notin DOMAIN aggs[i] \/ "agg" \notin DOMAIN aggs[i]
                       THEN [exc |-> "KeyError"]
                       ELSE [exc |-> "ValueError"]
               ELSE GroupByAgg(df, IF IsStr(group_by) THEN <<group_by.str>> ELSE group_by.list,
                               aggs)

\* runner.py:216-600 execute_transform_node, for an AGGREGATE node: the
\* exception or the returned table, and the RunLog rows written on the way
execute_transform_node(node, input_df) ==
    LET rows_in == Len(input_df.rows)
        schema == validate_transform_schema(node, input_df)
    IN IF schema # None
       THEN [exc |-> schema, log |-> <<>>]
       ELSE LET r == AggregateOperator(node.config, input_df)
            IN IF r.exc # None
               THEN [exc |-> r.exc,
                     log |-> <<LogRecord(node.id, "ERROR", rows_in, NoRows)>>]
               ELSE [exc |-> None, df |-> r.df,
                     log |-> <<LogRecord(node.id, "INFO", rows_in, Len(r.df.rows))>>]

\* the tables and AGGREGATE configs the operator is called with
SampleRows == {<<"a", 1>>, <<"a", 2>>, <<"b", 5>>, <<"b", 1>>}

SampleTables ==
    UNION {{Table(<<"g", "x">>, <<"object", "int64">>, rows) : rows \in [1..n -> SampleRows]} :
               n \in 0..MaxAggRows}

GroupBys == {JsonList(<<"g">>), JsonList(<<>>), JsonList(<<"h">>), JsonStr("g")}

Aggregation ==
    {[column |-> c, agg |-> f] : c \in {"x", "y"}, f \in {"sum", "max"}}
        \cup {[column |-> c, agg |-> f, as |-> "x_sum"] : c \in {"x", "y"}, f \in {"sum", "max"}}
        \cup {[agg |-> "sum", as |-> "x_sum"]}

AggregationLists ==
    {JsonList(aggs) : aggs \in UNION {[1..n -> Aggregation] : n \in 0..MaxAggs}}
        \cup {JsonDict([x |-> "sum"]), JsonDict([y |-> "sum"]), JsonDict(<<>>)}

AggregateConfigs ==
    {[group_by |-> g, aggregations |-> a] : g \in GroupBys, a \in AggregationLists}
        \cup {[aggregations |-> a] : a \in AggregationLists}
        \cup {[group_by |-> g] : g \in GroupBys}

AggregateNode(config) ==
    [id |-> "t", type |-> "TRANSFORM", subtype |-> "AGGREGATE", config |-> config]

NoDefinition == [nodes |-> <<>>, edges |-> <<>>]

InitAggregate ==
    /\ pipeline_json = NoDefinition
    /\ NoRunYet
    /\ \E config \in AggregateConfigs, df \in SampleTables :
           call = [name |-> "execute_transform_node", node |-> AggregateNode(config),
                   input_df |-> df]
    /\ outcome = NoOutcome

CallTransform ==
    /\ call.name = "execute_transform_node"
    /\ outcome = NoOutcome
    /\ outcome' = execute_transform_node(call.node, call.input_df)
    /\ UNCHANGED <<call, caller, tables, pipeline_json, vresult, tresult, pc, execution_order, pos,
                   results, output_paths, run_log, invoked, raised>>

NextAggregate == CallTransform

SpecAggregate == InitAggregate /\ [][NextAggregate]_vars

\* ------------------------------------------------------------------------
\* file_utils.py: sanitize_filename and the writers called on their own

MaxNameLen == 3

\* the characters of the file names tried
Alphabet == {"a", "7", ".", "/", " ", "-", "_"}

RECURSIVE Names(_)
Names(n) ==
    IF n = 0 THEN {""}
    ELSE Names(n - 1) \cup {name \o char : name \in Names(n - 1), char \in Alphabet}

Writers == {"write_csv", "write_excel", "write_json"}

InitSanitize ==
    /\ pipeline_json = NoDefinition
    /\ NoRunYet
    /\ \E name \in Names(MaxNameLen), function \in Writers \cup {"sanitize_filename"} :
           call = [name |-> function, argument |-> name]
    /\ outcome = NoOutcome

CallSanitizeFilename ==
    /\ call.name = "sanitize_filename"
    /\ outcome = NoOutcome
    /\ outcome' = [exc |-> None, value |-> sanitize_filename(call.argument)]
    /\ UNCHANGED <<call, caller, tables, pipeline_json, vresult, tresult, pc, execution_order, pos,
                   results, output_paths, run_log, invoked, raised>>

CallWriter ==
    /\ call.name \in Writers
    /\ outcome = NoOutcome
    /\ outcome' \in WriteOutcomes(call.argument)
    /\ UNCHANGED <<call, caller, tables, pipeline_json, vresult, tresult, pc, execution_order, pos,
                   results, output_paths, run_log, invoked, raised>>

NextSanitize == CallSanitizeFilename \/ CallWriter

SpecSanitize == InitSanitize /\ [][NextSanitize]_vars

\* ------------------------------------------------------------------------
\* pipelines.py: trigger_pipeline_run, worker_tasks.py: run_pipeline_task
\* ------------------------------------------------------------------------
\* the name column of the pipeline row (pydantic_schemas.py:114: never empty)
PipelineName == "sales"

\* sync=True, the queued task, and the inline fallback when the queue is down
Modes == {"sync", "worker", "fallback"}

\* the pipeline_name argument of the call of execute_pipeline:
\* pipelines.py:141 and 169 pass pipeline.name, worker_tasks.py:65 passes none
NameArgument(m) == IF m = "worker" THEN None ELSE PipelineName

\* stored pipelines with a run requested: nodes of any kind with distinct ids,
\* edges between existing nodes
DispatchKinds == {"source", "filter", "load", "load_no_path", "other"}

IsDispatchDef(definition) ==
    \E n \in 1..MaxDispatchNodes, m \in 0..MaxDispatchEdges :
        \E kinds \in [1..n -> DispatchKinds], ends \in [1..m -> FirstIds(n) \X FirstIds(n)] :
            definition = Definition(kinds, IdPool, ends)

InitDispatch ==
    /\ IsDispatchDef(pipeline_json)
    /\ vresult = NoValidation
    /\ tresult = NoOrder
    /\ pc = "request"
    /\ execution_order = <<>>
    /\ pos = 0
    /\ results = NoResults
    /\ output_paths = <<>>
    /\ run_log = <<>>
    /\ invoked = <<>>
    /\ raised = None
    /\ mode \in Modes
    /\ run = NoRun
    /\ pipeline_name = None
    /\ run_id = 1
    /\ db = EmptyDb
    /\ task_queue = <<>>
    /\ call = NoCall
    /\ outcome = NoOutcome

\* pipelines.py:101-181 trigger_pipeline_run up to the call of
\* execute_pipeline (sync and fallback) or to the enqueued task
TriggerPipelineRun ==
    /\ pc = "request"
    /\ IF mode = "worker"
       THEN /\ run' = [status |-> "PENDING", result_location |-> None]
            /\ pc' = "queued"
            /\ UNCHANGED pipeline_name
       ELSE /\ run' = [status |-> "RUNNING", result_location |-> None]
            /\ pc' = "idle"
            /\ pipeline_name' = NameArgument(mode)
    /\ UNCHANGED <<unit, tables, pipeline_json, vresult, tresult, execution_order, pos, results,
                   output_paths, run_log, invoked, raised, mode, run_id>>

\* worker_tasks.py:84-106: the except clause of run_pipeline_task: the run
\* is set to FAILED whatever its status was (86-92), then an ERROR row is
\* added (95-102) and the exception goes on to the task queue; either commit
\* can fail in its turn, which ends the clause there
TaskFailure(exc) ==
    /\ \/ /\ run' = [run EXCEPT !.status = "FAILED"]
          /\ run_log' \in {run_log,
                           Append(run_log, LogRecord(None, "ERROR", NoRows, NoRows))}
       \/ UNCHANGED <<run, run_log>>
    /\ raised' = exc
    /\ pc' = "finished"

\* worker_tasks.py:29-65 run_pipeline_task up to the call of
\* execute_pipeline: the run is RUNNING, then the start row is logged (54-62);
\* the commit of that row can fail
RunPipelineTask ==
    /\ pc = "queued"
    /\ \/ /\ run' = [run EXCEPT !.status = "RUNNING"]
          /\ run_log' = Append(run_log, LogRecord(None, "INFO", NoRows, NoRows))
          /\ pipeline_name' = NameArgument(mode)
          /\ pc' = "idle"
          /\ UNCHANGED raised
       \/ /\ TaskFailure("SQLAlchemyError")
          /\ UNCHANGED pipeline_name
    /\ UNCHANGED <<unit, tables, pipeline_json, vresult, tresult, execution_order, pos, results,
                   output_paths, invoked, mode, run_id>>

\* pipelines.py:144-147, 171-174 and worker_tasks.py:68-71: SUCCESS is
\* committed; the worker has its completion row still to write
RecordSuccess ==
    /\ pc = "returned"
    /\ run' = [status |-> "SUCCESS", result_location |-> ReturnValue]
    /\ pc' = IF mode = "worker" THEN "committed" ELSE "finished"
    /\ UNCHANGED <<unit, tables, pipeline_json, vresult, tresult, execution_order, pos, results,
                   output_paths, run_log, invoked, raised, mode, pipeline_name, run_id>>

\* pipelines.py:149-153, 176-180 and worker_tasks.py:84-106
RecordFailure ==
    /\ pc = "raised"
    /\ IF mode = "worker"
       THEN TaskFailure(raised)
       ELSE /\ run' = [run EXCEPT !.status = "FAILED"]
            /\ pc' = "finished"
            /\ UNCHANGED <<run_log, raised>>
    /\ UNCHANGED <<unit, tables, pipeline_json, vresult, tresult, execution_order, pos, results,
                   output_paths, invoked, mode, pipeline_name, run_id>>

\* worker_tasks.py:73-81: the completion row, added and committed inside the
\* try block after SUCCESS was committed; when the commit raises, the except
\* clause runs
LogCompletion ==
    /\ pc = "committed"
    /\ \/ /\ run_log' = Append(run_log, LogRecord(None, "INFO", NoRows, NoRows))
          /\ pc' = "finished"
          /\ UNCHANGED <<run, raised>>
       \/ TaskFailure("SQLAlchemyError")
    /\ UNCHANGED <<unit, tables, pipeline_json, vresult, tresult, execution_order, pos, results,
                   output_paths, invoked, mode, pipeline_name, run_id>>

NextDispatch ==
    \/ TriggerPipelineRun
    \/ RunPipelineTask
    \/ ExecBegin
    \/ ExecSourceNode
    \/ ExecTransformNode
    \/ ExecLoadNode
    \/ ExecUnknownNode
    \/ ExecReturn
    \/ RecordSuccess
    \/ LogCompletion
    \/ RecordFailure

SpecDispatch == InitDispatch /\ [][NextDispatch]_vars

\* ------------------------------------------------------------------------
\* pipeline_service.py and pipelines.py: the requests of several users

MaxPipelines == 1
MaxRuns == 1

\* User.id of the authenticated users
Users == {"u1", "u2"}

\* the state of the engine, which these requests leave alone
engine == <<pipeline_json, vresult, tresult, pc, execution_order, pos, results,
            output_paths, run_log, invoked, raised>>

\* a table with one more row, and without some rows
Put(table, id, row) == [k \in DOMAIN table \cup {id} |-> IF k = id THEN row ELSE table[k]]
Without(table, ids) == [k \in DOMAIN table \ ids |-> table[k]]

\* the definition and name a pipeline is created with
StoredDefs == {Definition(<<"source", "load">>, <<"a", "b">>, <<<<"a", "b">>>>)}
StoredNames == {PipelineName}

\* pydantic_schemas.py:120-124 PipelineUpdate: every field is optional
Updates == {[name |-> "stock", nodes |-> <<>>]}

\* fastapi.HTTPException(status_code, detail)
HTTPException(status_code, detail) ==
    [exc |-> "HTTPException", status_code |-> status_code, detail |-> detail]

Response(status_code, body) == [exc |-> None, status_code |-> status_code, body |-> body]

\* pipeline_service.py:37-54 without its ownership check
get_pipeline_NoOwnerCheck(pipeline_id, user) ==
    IF pipeline_id \notin DOMAIN db.pipelines
    THEN HTTPException(404, "Pipeline not found")
    ELSE [exc |-> None, pipeline |-> db.pipelines[pipeline_id]]

\* pipeline_service.py:37-54 get_pipeline
get_pipeline(pipeline_id, user) ==
    IF pipeline_id \notin DOMAIN db.pipelines
    THEN HTTPException(404, "Pipeline not found")
    ELSE IF db.pipelines[pipeline_id].owner_id # user
    THEN HTTPException(403, "Not authorized to access this pipeline")
    ELSE [exc |-> None, pipeline |-> db.pipelines[pipeline_id]]

\* runner.py:709-799 execute_pipeline as the tables see it: the RunLog rows
\* it adds for the run and what it returns or raises. The nodes run in
\* topological order and any of them can fail.
RunSummaries(definition, id) ==
    LET sorted == topological_sort(definition.nodes, definition.edges)
        row(node_id, level) == [node_id |-> node_id, level |-> level]
        done(n) == [i \in 1..n |-> row(sorted.order[i], "INFO")]
        loads == SelectSeq(sorted.order,
                           LAMBDA node_id : NodeMap(definition.nodes)[node_id].type = "LOAD")
    IN IF sorted.exc # None
       THEN {[exc |-> sorted.exc, logs |-> <<row(None, "ERROR")>>]}
       ELSE {[exc |-> "ValueError",
              logs |-> Append(done(n - 1), row(sorted.order[n], "ERROR"))] :
                 n \in 1..Len(sorted.order)}
            \cup {[exc |-> None, logs |-> done(Len(sorted.order)),
                   result_location |->
                       IF loads = <<>> THEN None
                       ELSE write_csv(NodeMap(definition.nodes)[loads[Len(loads)]]
                                          .config.output_path)]}

\* the users' requests start on empty tables
InitOwner ==
    /\ pipeline_json = NoDefinition
    /\ Idle

\* pipelines.py:22-34 with pipeline_service.py:15-34 create_pipeline
CreatePipeline ==
    \E user \in Users, name \in StoredNames, definition \in StoredDefs :
        LET id == db.pipeline_ids + 1
            pipeline == [owner_id |-> user, name |-> name, pipeline_json |-> definition]
        IN /\ id <= MaxPipelines
           /\ call' = [name |-> "create_pipeline", user |-> user]
           /\ db' = [db EXCEPT !.pipelines = Put(@, id, pipeline), !.pipeline_ids = id]
           /\ outcome' = Response(201, pipeline)
           /\ UNCHANGED <<task_queue, caller, engine>>

\* pipelines.py:54-66 GET /{pipeline_id}
GetPipeline ==
    \E user \in Users, pipeline_id \in 1..MaxPipelines :
        LET got == get_pipeline(pipeline_id, user)
        IN /\ call' = [name |-> "get_pipeline", user |-> user, pipeline_id |-> pipeline_id]
           /\ outcome' = IF got.exc # None THEN got ELSE Response(200, got.pipeline)
           /\ UNCHANGED <<tables, caller, engine>>

\* pipelines.py:69-82 with pipeline_service.py:94-127 update_pipeline
UpdatePipeline ==
    \E user \in Users, pipeline_id \in 1..MaxPipelines, pipeline_update \in Updates :
        LET got == get_pipeline(pipeline_id, user)
            old == got.pipeline
            named == IF "name" \in DOMAIN pipeline_update
                     THEN [old EXCEPT !.name = pipeline_update.name] ELSE old
            new == IF "nodes" \in DOMAIN pipeline_update \/ "edges" \in DOMAIN pipeline_update
                   THEN [named EXCEPT !.pipeline_json =
                            [nodes |-> IF "nodes" \in DOMAIN pipeline_update
                                       THEN pipeline_update.nodes ELSE old.pipeline_json.nodes,
                             edges |-> IF "edges" \in DOMAIN pipeline_update
                                       THEN pipeline_update.edges ELSE old.pipeline_json.edges]]
                   ELSE named
        IN /\ call' = [name |-> "update_pipeline", user |-> user, pipeline_id |-> pipeline_id]
           /\ IF got.exc # None
              THEN outcome' = got /\ UNCHANGED db
              ELSE /\ db' = [db EXCEPT !.pipelines[pipeline_id] = new]
                   /\ outcome' = Response(200, new)
           /\ UNCHANGED <<task_queue, caller, engine>>

\* pipelines.py:85-98 with pipeline_service.py:130-136 delete_pipeline; the
\* runs of the pipeline and their logs go with it (orm_models.py:57, 75)
DeletePipeline ==
    \E user \in Users, pipeline_id \in 1..MaxPipelines :
        LET got == get_pipeline(pipeline_id, user)
            gone == {id \in DOMAIN db.runs : db.runs[id].pipeline_id = pipeline_id}
        IN /\ call' = [name |-> "delete_pipeline", user |-> user, pipeline_id |-> pipeline_id]
           /\ IF got.exc # None
              THEN outcome' = got /\ UNCHANGED db
              ELSE /\ db' = [db EXCEPT
                                !.pipelines = Without(@, {pipeline_id}),
                                !.runs = Without(@, gone),
                                !.logs = Without(@, gone)]
                   /\ outcome' = Response(204, None)
           /\ UNCHANGED <<task_queue, caller, engine>>

\* pipelines.py:187-220 POST /{pipeline_id}/validate
ValidatePipeline ==
    \E user \in Users, pipeline_id \in 1..MaxPipelines :
        LET got == get_pipeline(pipeline_id, user)
        IN /\ call' = [name |-> "validate_pipeline", user |-> user, pipeline_id |-> pipeline_id]
           /\ outcome' = IF got.exc # None THEN got
                         ELSE Response(200, validate_pipeline(got.pipeline.pipeline_json))
           /\ UNCHANGED <<tables, caller, engine>>

\* pipelines.py:101-184 POST /{pipeline_id}/runs: the run row, then the
\* execution within the request (sync, or the queue is down) or a task
TriggerRun ==
    \E user \in Users, pipeline_id \in 1..MaxPipelines, sync \in BOOLEAN, broker_up \in BOOLEAN :
        LET got == get_pipeline(pipeline_id, user)
            id == db.run_ids + 1
            row(status, location) ==
                [pipeline_id |-> pipeline_id, status |-> status, triggered_by |-> user,
                 result_location |-> location]
        IN /\ call' = [name |-> "trigger_pipeline_run", user |-> user,
                       pipeline_id |-> pipeline_id]
           /\ IF got.exc # None
              THEN outcome' = got /\ UNCHANGED tables
              ELSE /\ id <= MaxRuns
                   /\ IF ~sync /\ broker_up
                      THEN /\ db' = [db EXCEPT !.runs = Put(@, id, row("PENDING", None)),
                                               !.run_ids = id]
                           /\ task_queue' = Append(task_queue, [run_id |-> id, pipeline_id |-> pipeline_id])
                           /\ outcome' = Response(202, row("PENDING", None))
                      ELSE \E summary \in RunSummaries(got.pipeline.pipeline_json, id) :
                               LET run_row == IF summary.exc = None
                                              THEN row("SUCCESS", summary.result_location)
                                              ELSE row("FAILED", None)
                               IN /\ db' = [db EXCEPT !.runs = Put(@, id, run_row),
                                                      !.run_ids = id,
                                                      !.logs = Put(@, id, summary.logs)]
                                  /\ outcome' = IF summary.exc = None
                                                THEN Response(202, run_row)
                                                ELSE HTTPException(500, summary.exc)
                                  /\ UNCHANGED task_queue
           /\ UNCHANGED <<caller, engine>>

\* worker_tasks.py:29-109 run_pipeline_task for the oldest task of the queue
RunQueuedTask ==
    /\ task_queue # <<>>
    /\ LET task == Head(task_queue)
           row(level) == [node_id |-> None, level |-> level]
       IN /\ task_queue' = Tail(task_queue)
          /\ call' = [name |-> "run_pipeline_task", run_id |-> task.run_id,
                      pipeline_id |-> task.pipeline_id]
          /\ IF task.run_id \notin DOMAIN db.runs
             \* the run is gone: the error log row has no run to belong to, and
             \* is stored or refused as the database enforces foreign keys or not
             THEN /\ outcome' = [exc |-> "ValueError"]
                  /\ \/ db' = [db EXCEPT !.logs = Put(@, task.run_id, <<row("ERROR")>>)]
                     \/ UNCHANGED db
             ELSE IF task.pipeline_id \notin DOMAIN db.pipelines
             THEN /\ outcome' = [exc |-> "ValueError"]
                  /\ db' = [db EXCEPT !.runs[task.run_id].status = "FAILED",
                                      !.logs = Put(@, task.run_id, <<row("ERROR")>>)]
             ELSE \E summary \in RunSummaries(db.pipelines[task.pipeline_id].pipeline_json,
                                              task.run_id) :
                      /\ outcome' = [exc |-> summary.exc]
                      /\ db' = IF summary.exc = None
                               THEN [db EXCEPT
                                        !.runs[task.run_id].status = "SUCCESS",
                                        !.runs[task.run_id].result_location =
                                            summary.result_location,
                                        !.logs = Put(@, task.run_id,
                                            (<<row("INFO")>> \o summary.logs)
                                                \o <<row("INFO")>>)]
                               ELSE [db EXCEPT
                                        !.runs[task.run_id].status = "FAILED",
                                        !.logs = Put(@, task.run_id,
                                            (<<row("INFO")>> \o summary.logs)
                                                \o <<row("ERROR")>>)]
    /\ UNCHANGED <<caller, engine>>

NextOwner ==
    \/ CreatePipeline
    \/ GetPipeline
    \/ UpdatePipeline
    \/ DeletePipeline
    \/ ValidatePipeline
    \/ TriggerRun
    \/ RunQueuedTask

SpecOwner == InitOwner /\ [][NextOwner]_vars

\* ------------------------------------------------------------------------
\* Graph notions the properties are stated in
\* ------------------------------------------------------------------------
Nodes == pipeline_json.nodes
Edges == pipeline_json.edges

UniqueIds == Cardinality(NodeIdSet(Nodes)) = Len(Nodes)

\* every edge names existing nodes at both ends
EdgesNameNodes ==
    \A i \in 1..Len(Edges) :
        EdgeFrom(Edges[i]) \in NodeIdSet(Nodes) /\ EdgeTo(Edges[i]) \in NodeIdSet(Nodes)

\* the edges between nodes of the graph, as pairs
EdgeRel ==
    {<<EdgeFrom(Edges[i]), EdgeTo(Edges[i])>> :
        i \in {j \in 1..Len(Edges) : /\ EdgeFrom(Edges[j]) \in NodeIdSet(Nodes)
                                     /\ EdgeTo(Edges[j]) \in NodeIdSet(Nodes)}}

\* the pairs joined by a path of at least one edge
RECURSIVE Closure(_)
Closure(R) ==
    LET R2 == R \cup {<<pq[1][1], pq[2][2]>> : pq \in {rs \in R \X R : rs[1][2] = rs[2][1]}}
    IN IF R2 = R THEN R ELSE Closure(R2)

HasCycle == \E id \in NodeIdSet(Nodes) : <<id, id>> \in Closure(EdgeRel)

Validated == vresult # NoValidation
Sorted == tresult # NoOrder

\* ------------------------------------------------------------------------
\* Properties
\* ------------------------------------------------------------------------
IsCycleError(e) == e.kind = "cycle"

\* C1: for every acyclic graph with unique node ids whose edges all name
\* existing nodes, topological_sort returns a sequence that holds every node
\* id exactly once and in which u comes before v for every edge (u, v).
C1_TopologicalOrder ==
    (Sorted /\ UniqueIds /\ EdgesNameNodes /\ ~HasCycle) =>
        /\ tresult.exc = None
        /\ Len(tresult.order) = Len(Nodes)
        /\ Range(tresult.order) = NodeIdSet(Nodes)
        /\ \A i \in 1..Len(Edges) :
               IndexOf(tresult.order, EdgeFrom(Edges[i]))
                   < IndexOf(tresult.order, EdgeTo(Edges[i]))

\* an acyclic graph of three nodes and two edges whose order is not the list order
C1_Witness ==
    /\ Sorted /\ UniqueIds /\ EdgesNameNodes /\ ~HasCycle
    /\ Len(Nodes) = 3 /\ Len(Edges) = 2
    /\ tresult.exc = None
    /\ tresult.order # DictKeys(Nodes)

\* C2: for any graph with a directed cycle among its nodes, validate_pipeline
\* returns is_valid = false with an error naming a cycle, and topological_sort
\* raises the cycle error. Stated here for the graphs whose edges all name
\* existing nodes, where it already fails.
C2_CycleRejected ==
    (Validated /\ Sorted /\ EdgesNameNodes /\ HasCycle) =>
        /\ vresult.exc = None
        /\ vresult.is_valid = FALSE
        /\ \E i \in 1..Len(vresult.errors) : IsCycleError(vresult.errors[i])
        /\ tresult.exc = "ValueError"

\* C3: validate_pipeline never raises; it returns a pair for every definition.
C3_ValidateNeverRaises == Validated => vresult.exc = None

EdgeDangles(i) ==
    \/ EdgeFrom(Edges[i]) \notin NodeIdSet(Nodes)
    \/ EdgeTo(Edges[i]) \notin NodeIdSet(Nodes)

\* C5: for every edge with an endpoint that names no node, validate_pipeline
\* returns is_valid = false and an error that carries the index of that edge
\* (stated for a non-empty node list; the empty one has its own single error).
C5_DanglingEdgeReported ==
    (Validated /\ Nodes # <<>>) =>
        \A i \in 1..Len(Edges) :
            EdgeDangles(i) =>
                /\ vresult.exc = None
                /\ vresult.is_valid = FALSE
                /\ \E k \in 1..Len(vresult.errors) :
                       /\ vresult.errors[k].kind \in {"edge_from_not_exist", "edge_to_not_exist"}
                       /\ vresult.errors[k].idx = i - 1

\* C4: for any graph in which two nodes share an id, validate_pipeline returns
\* is_valid = false (the claim asks for an error about the duplicate as well,
\* and no message of validation.py is about one).
C4_DuplicateIdRejected ==
    (Validated /\ ~UniqueIds /\ EdgesNameNodes) =>
        (vresult.exc = None /\ vresult.is_valid = FALSE)

HasOutgoing(id) == \E i \in 1..Len(Edges) : EdgeFrom(Edges[i]) = id
HasIncoming(id) == \E i \in 1..Len(Edges) : EdgeTo(Edges[i]) = id

OrphanKinds ==
    {"source_no_outgoing", "load_no_incoming", "transform_no_incoming",
     "transform_no_outgoing", "no_connections"}

\* the kinds of the orphan errors reported about a node, in report order
OrphanReport(errors, id) ==
    LET about == SelectSeq(errors, LAMBDA e : e.kind \in OrphanKinds /\ e.node = id)
    IN [k \in 1..Len(about) |-> about[k].kind]

\* what the rule of the node's role asks to be reported
OrphanRule(node) ==
    CASE node.type = "SOURCE" ->
            IF HasOutgoing(node.id) THEN <<>> ELSE <<"source_no_outgoing">>
      [] node.type = "LOAD" ->
            IF HasIncoming(node.id) THEN <<>> ELSE <<"load_no_incoming">>
      [] node.type = "TRANSFORM" ->
            IF HasIncoming(node.id)
            THEN IF HasOutgoing(node.id) THEN <<>> ELSE <<"transform_no_outgoing">>
            ELSE IF HasOutgoing(node.id) THEN <<"transform_no_incoming">>
                 ELSE <<"transform_no_incoming", "transform_no_outgoing">>
      [] OTHER ->
            IF HasIncoming(node.id) \/ HasOutgoing(node.id) THEN <<>> ELSE <<"no_connections">>

\* C6: the orphan check reports a SOURCE without outgoing edge, a LOAD without
\* incoming edge, a TRANSFORM once per missing direction and a node of another
\* type only when it has no edge at all, and reports nothing else about a node.
C6_OrphanCheck ==
    Validated =>
        \A i \in 1..Len(Nodes) :
            /\ OrphanReport(detect_orphan_nodes(Nodes, Edges), Nodes[i].id) = OrphanRule(Nodes[i])
            /\ vresult.exc = None => OrphanReport(vresult.errors, Nodes[i].id) = OrphanRule(Nodes[i])

\* a TRANSFORM node with an incoming edge only, reported once, next to a
\* SOURCE node that satisfies its rule
C6_Witness ==
    /\ Validated /\ vresult.exc = None
    /\ \E i, j \in 1..Len(Nodes) :
           /\ Nodes[i].type = "TRANSFORM"
           /\ HasIncoming(Nodes[i].id) /\ ~HasOutgoing(Nodes[i].id)
           /\ OrphanReport(vresult.errors, Nodes[i].id) = <<"transform_no_outgoing">>
           /\ Nodes[j].type = "SOURCE"
           /\ OrphanReport(vresult.errors, Nodes[j].id) = <<>>

KindsOf(errors) == {errors[k].kind : k \in 1..Len(errors)}

PipelineError == LogRecord(None, "ERROR", NoRows, NoRows)

\* C8: when the graph handed to execute_pipeline contains a cycle, exactly one
\* pipeline-level ERROR record is appended, the failure is propagated and no
\* node is executed.
C8_CycleAbortsRun ==
    (HasCycle /\ pc # "idle") =>
        /\ pc = "raised"
        /\ raised # None
        /\ run_log = <<PipelineError>>
        /\ invoked = <<>>
        /\ results = NoResults
        /\ output_paths = <<>>

\* a record of a node that failed is in the log
NodeFailed ==
    \E k \in 1..Len(run_log) : run_log[k].level = "ERROR" /\ run_log[k].node_id # None

\* C9: when a node's operator or schema check raises, the run aborts at that
\* node: the exception reaches the caller, the node is neither retried nor
\* skipped, and no node after it in the execution order is executed.
C9_AbortAtFailingNode ==
    NodeFailed =>
        /\ pc = "raised"
        /\ raised # None
        /\ run_log[Len(run_log)] = LogRecord(execution_order[pos], "ERROR", NoRows, NoRows)
        /\ invoked \in {SubSeq(execution_order, 1, pos - 1), SubSeq(execution_order, 1, pos)}
        /\ DOMAIN results \subseteq Range(SubSeq(execution_order, 1, pos - 1))
        /\ Len(output_paths) <= pos - 1

\* the schema check of a TRANSFORM node raised and a LOAD node comes after it
C9_Witness ==
    /\ NodeFailed
    /\ pos < Len(execution_order)
    /\ NodeMap(Nodes)[execution_order[pos]].type = "TRANSFORM"
    /\ NodeMap(Nodes)[execution_order[pos + 1]].type = "LOAD"
    /\ invoked = SubSeq(execution_order, 1, pos)
    /\ SchemaCheckFails(NodeMap(Nodes)[execution_order[pos]], results[execution_order[pos - 1]])

\* C10: whenever execute_pipeline raises, while ordering the nodes or while
\* running one, an ERROR record of that failure is in the run log by then.
C10_FailureLogged ==
    pc = "raised" =>
        /\ run_log # <<>>
        /\ run_log[Len(run_log)].level = "ERROR"

\* the record of the node that feeds the primary input of the node: the
\* source end of the first edge into it
PrimaryInput(node_id) == EdgeFrom(IncomingEdges(Edges, node_id)[1])

RecordOf(node_id) == run_log[CHOOSE k \in 1..Len(run_log) : run_log[k].node_id = node_id]

\* C11: a successful run appends exactly one record per node, in execution
\* order and all INFO; a SOURCE record carries rows_out, a TRANSFORM record
\* rows_in and rows_out, a LOAD record rows_in, and the rows_in of a node is
\* the rows_out of the node that feeds its primary input.
C11_OneRecordPerNode ==
    pc = "returned" =>
        /\ Len(run_log) = Len(execution_order)
        /\ \A k \in 1..Len(run_log) :
               LET rec == run_log[k]
                   node == NodeMap(Nodes)[execution_order[k]]
               IN /\ rec.node_id = execution_order[k]
                  /\ rec.level = "INFO"
                  /\ node.type \in {"SOURCE", "TRANSFORM", "LOAD"}
                  /\ node.type \in {"SOURCE", "TRANSFORM"} => rec.rows_out >= 0
                  /\ node.type \in {"TRANSFORM", "LOAD"} =>
                         /\ rec.rows_in >= 0
                         /\ rec.rows_in = RecordOf(PrimaryInput(node.id)).rows_out

\* source, filter and sink in a chain over three rows, the filter dropping one
C11_Witness ==
    /\ pc = "returned"
    /\ Len(run_log) = 3
    /\ run_log[1].rows_out = 3
    /\ run_log[2].rows_out = 2
    /\ NodeMap(Nodes)[execution_order[1]].type = "SOURCE"
    /\ NodeMap(Nodes)[execution_order[2]].type = "TRANSFORM"
    /\ NodeMap(Nodes)[execution_order[3]].type = "LOAD"
    /\ PrimaryInput(execution_order[3]) = execution_order[2]
    /\ run_log[2].rows_out < run_log[2].rows_in
    /\ run_log[3].rows_in = run_log[2].rows_out

\* the LOAD nodes in execution order
LoadsInOrder == SelectSeq(execution_order, LAMBDA id : NodeMap(Nodes)[id].type = "LOAD")

\* the location the LOAD node writes to
LocationOf(node_id) == write_csv(OutputPath(NodeMap(Nodes)[node_id]))

\* C12: execute_pipeline returns the output location of the LOAD node that
\* executed last in topological order, never that of an earlier one, and
\* None when the graph has no LOAD node.
C12_ReturnsLastLoad ==
    pc = "returned" =>
        IF LoadsInOrder = <<>>
        THEN ReturnValue = None
        ELSE ReturnValue = LocationOf(LoadsInOrder[Len(LoadsInOrder)])

\* two LOAD nodes with different locations ran; the later one's is returned
C12_Witness ==
    /\ pc = "returned"
    /\ Len(LoadsInOrder) = 2
    /\ LocationOf(LoadsInOrder[1]) # LocationOf(LoadsInOrder[2])
    /\ ReturnValue = LocationOf(LoadsInOrder[2])
    /\ Len(output_paths) = 2

\* the same graph with every edge written with 'from' and 'to'
WithFromTo(definition) ==
    [definition EXCEPT !.edges =
        [j \in 1..Len(definition.edges) |->
            Edge(EdgeFrom(definition.edges[j]), EdgeTo(definition.edges[j]))]]

\* C13: a graph whose edges are written with the aliases from_node/source and
\* to_node/target is validated and ordered for execution exactly as the same
\* graph written with from/to.
C13_AliasesEquivalent ==
    /\ Validated => vresult = validate_pipeline(WithFromTo(pipeline_json))
    /\ Sorted => tresult = topological_sort(WithFromTo(pipeline_json).nodes,
                                            WithFromTo(pipeline_json).edges)

\* the location execute_pipeline returns for this definition and run id when
\* it is called the way the dispatch path m calls it
LocationVia(m) ==
    IF LoadsInOrder = <<>> THEN None
    ELSE LET config == NodeMap(Nodes)[LoadsInOrder[Len(LoadsInOrder)]].config
             name == NameArgument(m)
             default_basename == IF Truthy(name) THEN name ELSE "output_" \o ToString(run_id)
         IN write_csv(Or2(Get(config, "output_path"), default_basename \o ".csv"))

\* C14: for the same definition and run id the synchronous path and the
\* worker path end with the same result location, the default output name
\* of a LOAD node without output_path included: the location a successful
\* run records is the one every dispatch path records for it.
C14_SameForEveryDispatch ==
    (pc = "finished" /\ run.status = "SUCCESS") =>
        \A m \in Modes : run.result_location = LocationVia(m)

\* C15: validate_pipeline is idempotent and free of side effects: the
\* verdict and error list change only at the first call, whether an execution
\* of the definition came in between or not, and the call changes neither the
\* definition nor the log.
C15_ValidateIdempotent ==
    [][vresult' # vresult =>
           /\ vresult = NoValidation
           /\ pipeline_json' = pipeline_json
           /\ run_log' = run_log]_vars

\* the definition has been validated and then executed with a JOIN node
\* whose right input was written into its config
C15_Witness ==
    /\ Validated
    /\ pc = "returned"
    /\ \E i \in 1..Len(Nodes) : "right_node_id" \in DOMAIN Nodes[i].config

\* C16: execute_pipeline does not change the definition the caller passed
\* in: no step of a run changes a node's config, so the right input found
\* for a JOIN node never shows in the caller's definition.
C16_DefinitionUnchanged == [][pipeline_json' = pipeline_json]_vars

\* the call is the case of C17: an AGGREGATE node whose group_by names
\* columns of the input and whose aggregations are a list of
\* {column, agg, as} over columns of the input
AggregateCase ==
    /\ call.name = "execute_transform_node"
    /\ outcome # NoOutcome
    /\ call.node.subtype = "AGGREGATE"
    /\ DOMAIN call.node.config = {"group_by", "aggregations"}
    /\ IsList(call.node.config.group_by)
    /\ call.node.config.group_by.list # <<>>
    /\ Range(call.node.config.group_by.list) \subseteq Range(call.input_df.columns)
    /\ IsList(call.node.config.aggregations)
    /\ call.node.config.aggregations.list # <<>>
    /\ \A i \in 1..Len(call.node.config.aggregations.list) :
           LET agg == call.node.config.aggregations.list[i]
           IN /\ DOMAIN agg = {"column", "agg", "as"}
              /\ agg.column \in Range(call.input_df.columns)

\* C17: an AGGREGATE node with a non-empty group_by and a list of
\* aggregations {column, agg, as} succeeds and returns exactly one row per
\* distinct group key, the aggregate of the group under the name given by as.
C17_AggregatePerGroup ==
    AggregateCase =>
        LET df == call.input_df
            by == call.node.config.group_by.list
            aggs == call.node.config.aggregations.list
            key(t, row) == [j \in 1..Len(by) |-> row[IndexOf(t.columns, by[j])]]
            keys == {key(df, df.rows[i]) : i \in 1..Len(df.rows)}
            values(k, col) ==
                LET rows == SelectSeq(df.rows, LAMBDA row : key(df, row) = k)
                IN [i \in 1..Len(rows) |-> rows[i][IndexOf(df.columns, col)]]
        IN /\ outcome.exc = None
           /\ Len(outcome.df.rows) = Cardinality(keys)
           /\ Range(by) \subseteq Range(outcome.df.columns)
           /\ \A k \in keys :
                  \E i \in 1..Len(outcome.df.rows) :
                      /\ key(outcome.df, outcome.df.rows[i]) = k
                      /\ \A n \in 1..Len(aggs) :
                             /\ aggs[n].as \in Range(outcome.df.columns)
                             /\ outcome.df.rows[i][IndexOf(outcome.df.columns, aggs[n].as)]
                                    = ApplyAgg(aggs[n].agg, values(k, aggs[n].column))

\* the run stopped at a TRANSFORM node whose schema check raised: a column
\* its config names is not in its primary input
SchemaFailed ==
    /\ pc = "raised"
    /\ pos \in 1..Len(execution_order)
    /\ NodeMap(Nodes)[execution_order[pos]].type = "TRANSFORM"
    /\ IncomingEdges(Edges, execution_order[pos]) # <<>>
    /\ PrimaryInput(execution_order[pos]) \in DOMAIN results
    /\ SchemaCheckFails(NodeMap(Nodes)[execution_order[pos]],
                        results[PrimaryInput(execution_order[pos])])

\* C18: when the schema check of a TRANSFORM node fails, an ERROR record of
\* that node carries rows_in, the row count of its primary input; the failure
\* reaches the caller and results holds what it held when the node was reached.
C18_SchemaFailureRecord ==
    SchemaFailed =>
        LET node_id == execution_order[pos]
        IN /\ \E k \in 1..Len(run_log) :
                  run_log[k] = LogRecord(node_id, "ERROR",
                                         results[PrimaryInput(node_id)].rows, NoRows)
           /\ raised # None
           /\ DOMAIN results \subseteq Range(SubSeq(execution_order, 1, pos - 1))

\* a name of a file in a directory: characters that sanitize_filename keeps,
\* so no path separator, and not a reference to the directory or its parent
PlainName(name) ==
    /\ \A i \in 1..Len(name) : CharAt(name, i) \in AlnumChars \cup {"-", "_", "."}
    /\ name \notin {"", ".", ".."}

\* C19: for every input the name sanitize_filename returns has only
\* alphanumerics, '-', '_' and '.', no path separator, and is not a
\* parent-directory reference; and a write that succeeds is to a file
\* directly inside OUTPUT_DIR.
C19_NoTraversal ==
    /\ (call.name = "sanitize_filename" /\ outcome # NoOutcome) =>
           /\ \A i \in 1..Len(outcome.value) :
                  CharAt(outcome.value, i) \in AlnumChars \cup {"-", "_", "."}
           /\ \A i \in 1..Len(outcome.value) : CharAt(outcome.value, i) # "/"
           /\ outcome.value # ".."
    /\ (call.name \in Writers /\ outcome # NoOutcome /\ outcome.exc = None) =>
           /\ Len(outcome.value) > Len(OutputDir) + 1
           /\ SubSeq(outcome.value, 1, Len(OutputDir) + 1) = OutputDir \o "/"
           /\ PlainName(SubSeq(outcome.value, Len(OutputDir) + 2, Len(outcome.value)))

\* the operations on one pipeline that are for its owner
OwnerOperations ==
    {"get_pipeline", "update_pipeline", "delete_pipeline", "validate_pipeline",
     "trigger_pipeline_run"}

\* C20: only the owner can access a pipeline: whatever requests came before,
\* a get, update, delete, validate or trigger-run on a pipeline by a user who
\* is not its owner fails as not authorized and changes no pipeline, run or log.
C20_OwnerOnly ==
    [][(/\ call'.name \in OwnerOperations
        /\ call'.pipeline_id \in DOMAIN db.pipelines
        /\ db.pipelines[call'.pipeline_id].owner_id # call'.user)
           => /\ outcome' = HTTPException(403, "Not authorized to access this pipeline")
              /\ db' = db
              /\ task_queue' = task_queue]_vars

\* a user was refused a run of a pipeline of another user that has a
\* finished run with logs
C20_Witness ==
    /\ call.name = "trigger_pipeline_run"
    /\ outcome.exc = "HTTPException"
    /\ outcome.status_code = 403
    /\ call.pipeline_id \in DOMAIN db.pipelines
    /\ db.pipelines[call.pipeline_id].owner_id # call.user
    /\ \E id \in DOMAIN db.runs :
           /\ db.runs[id].pipeline_id = call.pipeline_id
           /\ db.runs[id].status = "SUCCESS"
           /\ id \in DOMAIN db.logs
           /\ db.logs[id] # <<>>

\* the nodes that lie on a directed cycle, and the cycle group of such a
\* node: the nodes it reaches and is reached from
OnCycle == {id \in NodeIdSet(Nodes) : <<id, id>> \in Closure(EdgeRel)}

CycleThrough(id) ==
    {m \in NodeIdSet(Nodes) : <<id, m>> \in Closure(EdgeRel) /\ <<m, id>> \in Closure(EdgeRel)}

CyclesOfGraph == {CycleThrough(id) : id \in OnCycle}

\* every cycle of the graph is node-disjoint from every other one: a node on
\* a cycle has one successor among the nodes it shares a cycle with
CyclesAreDisjoint ==
    \A id \in OnCycle :
        Cardinality({m \in CycleThrough(id) : <<id, m>> \in EdgeRel}) = 1

\* the cycle messages of the validation result
CycleMessages == SelectSeq(vresult.errors, IsCycleError)

\* C21: when a graph contains several node-disjoint cycles, detect_cycles
\* reports each of them exactly once, whatever the order of nodes and edges
\* and whether or not one cycle is reachable from another.
C21_EachCycleOnce ==
    (Validated /\ EdgesNameNodes /\ CyclesAreDisjoint /\ Cardinality(CyclesOfGraph) >= 2) =>
        /\ vresult.exc = None
        /\ Len(CycleMessages) = Cardinality(CyclesOfGraph)
        /\ \A c \in CyclesOfGraph :
               Cardinality({i \in 1..Len(CycleMessages) :
                               Range(CycleMessages[i].detail) = c}) = 1

\* the edges as pairs of the ids they name, whether or not a node carries them
EdgePairs == {<<EdgeFrom(Edges[i]), EdgeTo(Edges[i])>> : i \in 1..Len(Edges)}

\* the sequence of ids of a cycle message is a cycle of the graph that could
\* be a slice of a DFS path: closed, along edges, no node twice before the end
IsRealCycle(ids) ==
    /\ Len(ids) >= 2
    /\ ids[1] = ids[Len(ids)]
    /\ \A i \in 1..(Len(ids) - 1) : <<ids[i], ids[i + 1]>> \in EdgePairs
    /\ \A i, j \in 1..(Len(ids) - 1) : ids[i] = ids[j] => i = j

\* C22: every cycle message of detect_cycles lists a real cycle of the graph:
\* the sequence starts and ends with the revisited neighbour, every
\* consecutive pair is an edge, and it is a slice of the DFS path (no node
\* occurs twice before the closing one).
C22_MessagesAreCycles ==
    (Validated /\ vresult.exc = None) =>
        \A i \in 1..Len(CycleMessages) :
            /\ IsRealCycle(CycleMessages[i].detail)
            /\ CycleMessages[i].detail[1] = CycleMessages[i].node

\* a cycle of two nodes found below the DFS root: the path is a, b, c and the
\* message is b, c, b
C22_Witness ==
    /\ Validated /\ vresult.exc = None
    /\ Len(Nodes) = 3
    /\ <<Nodes[1].id, Nodes[2].id>> \in EdgePairs
    /\ \E i \in 1..Len(CycleMessages) :
           CycleMessages[i].detail = <<Nodes[2].id, Nodes[3].id, Nodes[2].id>>

\* the records of the run log that name the node
RecordsOf(node_id) == SelectSeq(run_log, LAMBDA rec : rec.node_id = node_id)

\* C23: the run log holds exactly one record per operator invocation or
\* node-level failure: at any point of a run, a node that has succeeded has
\* exactly one record, an INFO one, a node that has failed has exactly one
\* record, an ERROR one, and a node not yet reached has none.
C23_OneRecordPerInvocation ==
    \A k \in 1..Len(execution_order) :
        LET recs == RecordsOf(execution_order[k])
        IN /\ k < pos => Len(recs) = 1 /\ recs[1].level = "INFO"
           /\ (k = pos /\ pc = "raised") => Len(recs) = 1 /\ recs[1].level = "ERROR"
           /\ (k > pos \/ (k = pos /\ pc = "running")) => recs = <<>>

\* the ids at the source end of the edges into the node, in edge-list order
InboundSources(node_id) ==
    LET into == {i \in 1..Len(Edges) : EdgeTo(Edges[i]) = node_id}
        Nth(k) == CHOOSE i \in into : Cardinality({j \in into : j < i}) = k - 1
    IN [k \in 1..Cardinality(into) |-> EdgeFrom(Edges[Nth(k)])]

IsJoin(node) == node.type = "TRANSFORM" /\ node.subtype = "JOIN"

\* C24: input resolution follows edge-list order: the primary input of a
\* TRANSFORM or LOAD node is the dataset of the source of its first inbound
\* edge, further inbound edges of a node that is no JOIN are ignored, and a
\* JOIN node with two or more inbound edges gets as right-hand input the
\* dataset of the source of its second inbound edge, whatever right_node_id
\* its config held before.
C24_InputsInEdgeOrder ==
    \A k \in 1..Len(execution_order) :
        LET node == NodeMap(Nodes)[execution_order[k]]
            inbound == InboundSources(node.id)
        IN /\ (k < pos /\ node.type \in {"TRANSFORM", "LOAD"}) =>
                  /\ inbound # <<>>
                  /\ RecordsOf(node.id)[1].rows_in = results[inbound[1]].rows
           /\ (k < pos /\ node.type = "TRANSFORM" /\ ~IsJoin(node)) =>
                  /\ results[node.id].columns = results[inbound[1]].columns
                  /\ results[node.id].rows <= results[inbound[1]].rows
           /\ (node.id \in Range(invoked) /\ IsJoin(node) /\ Len(inbound) >= 2) =>
                  node.config.right_node_id = inbound[2]
           /\ (k < pos /\ IsJoin(node) /\ Len(inbound) >= 2) =>
                  /\ node.config.left_on \in results[inbound[1]].columns
                  /\ node.config.right_on \in results[inbound[2]].columns
                  /\ results[node.id].columns =
                         JoinColumns(results[inbound[1]].columns, results[inbound[2]].columns,
                                     node.config.left_on, node.config.right_on)
                  /\ results[node.id].rows
                         <= results[inbound[1]].rows * results[inbound[2]].rows

\* a JOIN node stored with right_node_id a was run with the edges a -> c,
\* b -> c and b -> c again: its inputs were a and b, of different sizes
C24_Witness ==
    /\ pc = "returned"
    /\ IsJoin(NodeMap(Nodes)["c"])
    /\ "join_type" \notin DOMAIN NodeMap(Nodes)["c"].config
    /\ InboundSources("c") = <<"a", "b", "b">>
    /\ NodeMap(Nodes)["c"].config.right_node_id = "b"
    /\ results["a"].rows = 1 /\ results["b"].rows = 3
    /\ results["c"].rows = 3

\* C25: in a run over an acyclic graph whose edges all name existing nodes,
\* whenever a TRANSFORM or LOAD node is reached in topological order, the
\* node named by its first inbound edge already has an entry in results.
C25_PredecessorReady ==
    (/\ pc = "running" /\ pos <= Len(execution_order)
     /\ EdgesNameNodes /\ ~HasCycle
     /\ CurrentNode.type \in {"TRANSFORM", "LOAD"}
     /\ InboundSources(CurrentNode.id) # <<>>)
        => InboundSources(CurrentNode.id)[1] \in DOMAIN results

\* no id occurs twice in the sequence
NoRepeats(ids) == \A i, j \in 1..Len(ids) : ids[i] = ids[j] => i = j

\* C26: a dataset is produced by exactly one node and is immutable once
\* produced: in every step of a run each node has been dispatched at most
\* once, an entry of results is written only for the node being executed and
\* only when it has none yet, and every entry that exists stays as it is,
\* also in the step in which a later node fails.
C26_DatasetsImmutable ==
    [][/\ NoRepeats(invoked')
       /\ \A id \in DOMAIN results : id \in DOMAIN results' /\ results'[id] = results[id]
       /\ \A id \in DOMAIN results' \ DOMAIN results :
              pc = "running" /\ id = execution_order[pos]]_vars

\* the third node failed after two datasets of different sizes were stored
C26_Witness ==
    /\ pc = "raised"
    /\ invoked = <<"a", "b", "c">>
    /\ DOMAIN results = {"a", "b"}
    /\ results["a"].rows = 3 /\ results["b"].rows = 2
    /\ InboundSources("c") = <<"b">>

\* C27: there are no partial-success runs: if execute_pipeline raises, no
\* LOAD node of that run has written its output, for every graph, graphs
\* with several LOAD nodes on independent branches included.
C27_NoPartialSuccess == pc = "raised" => output_paths = <<>>

\* C28: validation is sufficient for ordering: for every definition for
\* which validate_pipeline returns is_valid = true, topological_sort on the
\* same nodes and edges returns an order without raising.
C28_ValidMeansSortable ==
    (Validated /\ Sorted /\ vresult.exc = None /\ vresult.is_valid) => tresult.exc = None

\* C29: the two cycle detectors agree: for every graph with unique node ids
\* whose edges use from/to and name existing nodes, detect_cycles returns at
\* least one cycle error exactly when topological_sort raises, and returns
\* no error for an acyclic graph.
C29_DetectorsAgree ==
    (Validated /\ Sorted /\ UniqueIds /\ EdgesNameNodes) =>
        /\ vresult.exc = None
        /\ CycleMessages # <<>> <=> tresult.exc # None
        /\ ~HasCycle => CycleMessages = <<>>

\* C30: a run's status follows PENDING, RUNNING, then SUCCESS or FAILED on
\* both dispatch paths (a run executed in the request starts as RUNNING):
\* it becomes SUCCESS only when execute_pipeline has returned, FAILED only
\* when a step raised, and a status of SUCCESS or FAILED never changes
\* again, also when writing the completion log fails after SUCCESS was
\* committed.
C30_StatusLifecycle ==
    [][run'.status # run.status =>
          \/ run.status = None /\ run'.status \in {"PENDING", "RUNNING"}
          \/ run.status = "PENDING" /\ run'.status = "RUNNING"
          \/ run.status = "RUNNING" /\ run'.status = "SUCCESS" /\ pc = "returned"
          \/ run.status \in {"PENDING", "RUNNING"} /\ run'.status = "FAILED"
                 /\ raised' # None]_vars

====
